---- MODULE Spec2Model ----
(***************************************************************************)
(* Model of the investplan simulation engine: the monthly rebalancer       *)
(* (engine/rebalancer.py), the single-trial orchestrator                   *)
(* (engine/simulator.py) and the Monte Carlo aggregator                    *)
(* (engine/montecarlo.py, gui/dialogs/montecarlo_dialog.py).               *)
(*                                                                         *)
(* Python floats are modelled as exact rationals <<n, d>> in lowest terms  *)
(* with d > 0; <<1, 0>> stands for float("inf").  The series the           *)
(* stochastic generators return are drawn from bounded sets of series.     *)
(***************************************************************************)
EXTENDS Integers, Sequences, FiniteSets, TLC

(***************************************************************************)
(* Bounds of the model.                                                    *)
(***************************************************************************)
MaxSims == 3

(***************************************************************************)
(* Program constants.                                                      *)
(***************************************************************************)
MonthsPerYear == 12

(***************************************************************************)
(* Exact rational arithmetic standing for Python float arithmetic.         *)
(***************************************************************************)
Abs(x) == IF x < 0 THEN -x ELSE x

RECURSIVE GCD(_, _)
GCD(a, b) == IF b = 0 THEN a ELSE GCD(b, a % b)

Norm(n, d) ==
    IF d = 0 THEN <<(IF n > 0 THEN 1 ELSE IF n < 0 THEN -1 ELSE 0), 0>>
    ELSE LET g == GCD(Abs(n), Abs(d))
             s == IF d < 0 THEN -1 ELSE 1
         IN  <<(s * n) \div g, (s * d) \div g>>

Rat(n) == <<n, 1>>
Q(n, d) == Norm(n, d)
Zero == <<0, 1>>
One == <<1, 1>>
Hundred == <<100, 1>>
Inf == <<1, 0>>

\* Sums over the least common denominator (an infinity has denominator 0).
RAdd(a, b) ==
    LET g == IF a[2] = 0 \/ b[2] = 0 THEN 1 ELSE GCD(a[2], b[2])
    IN  Norm(a[1] * (b[2] \div g) + b[1] * (a[2] \div g), (a[2] \div g) * b[2])
RSub(a, b) == RAdd(a, <<-b[1], b[2]>>)
\* Products with the common factors cancelled first.
RMul(a, b) ==
    LET g == GCD(Abs(a[1]), b[2])
        h == GCD(Abs(b[1]), a[2])
        u == IF g = 0 THEN 1 ELSE g
        v == IF h = 0 THEN 1 ELSE h
    IN  Norm((a[1] \div u) * (b[1] \div v), (a[2] \div v) * (b[2] \div u))
RDiv(a, b) == RMul(a, IF b[1] < 0 THEN <<-b[2], -b[1]>> ELSE <<b[2], b[1]>>)
RLt(a, b) ==
    LET g == IF a[2] = 0 \/ b[2] = 0 THEN 1 ELSE GCD(a[2], b[2])
    IN  a[1] * (b[2] \div g) < b[1] * (a[2] \div g)
RLe(a, b) ==
    LET g == IF a[2] = 0 \/ b[2] = 0 THEN 1 ELSE GCD(a[2], b[2])
    IN  a[1] * (b[2] \div g) <= b[1] * (a[2] \div g)
RMax(a, b) == IF RLt(a, b) THEN b ELSE a
RMin(a, b) == IF RLt(b, a) THEN b ELSE a

RECURSIVE RSum(_)
RSum(s) == IF s = <<>> THEN Zero ELSE RAdd(s[1], RSum(Tail(s)))

\* a ** n by repeated squaring.
RECURSIVE RPow(_, _)
RPow(a, n) ==
    IF n = 0 THEN One
    ELSE IF n % 2 = 0 THEN LET h == RPow(a, n \div 2) IN RMul(h, h)
    ELSE RMul(a, RPow(a, n - 1))

\* s[lo] * ... * s[hi], multiplied by halves.
RECURSIVE RProd(_, _, _)
RProd(s, lo, hi) ==
    IF lo > hi THEN One
    ELSE IF lo = hi THEN s[lo]
    ELSE LET mid == (lo + hi) \div 2
         IN  RMul(RProd(s, lo, mid), RProd(s, mid + 1, hi))

\* float("nan"): every comparison with it is false.
NaN == <<0, 0>>

\* np.clip(x, lo, hi) = minimum(maximum(x, lo), hi); a NaN stays a NaN.
Clip(x, lo, hi) == IF x = NaN THEN NaN ELSE RMin(RMax(x, lo), hi)

(***************************************************************************)
(* Python's None.                                                          *)
(***************************************************************************)
None == "<None>"

(***************************************************************************)
(* engine/bucket.py: sell and buy helpers.                                 *)
(***************************************************************************)
\* The sale with the fee added to the proceeds.
compute_sell_FeeAdded(amount_currency, fee_pct) ==
    LET fee == RDiv(RMul(amount_currency, fee_pct), Hundred)
    IN  [net |-> RAdd(amount_currency, fee), fee |-> fee]

compute_sell(amount_currency, fee_pct) ==
    LET fee == RDiv(RMul(amount_currency, fee_pct), Hundred)
    IN  [net |-> RSub(amount_currency, fee), fee |-> fee]

compute_buy(spend_currency, fee_pct) ==
    LET fee == RDiv(RMul(spend_currency, fee_pct), Hundred)
    IN  [invested |-> RSub(spend_currency, fee), fee |-> fee]

(***************************************************************************)
(* engine/rebalancer.py: triggers, FX lookup and runway.                   *)
(***************************************************************************)
get_fx_rate(bucket_currency, expenses_currency, fx_rates) ==
    IF bucket_currency = expenses_currency THEN One
    ELSE IF bucket_currency \in DOMAIN fx_rates THEN fx_rates[bucket_currency]
    ELSE One
\* check_sell_trigger without the early return for target_growth_pct = 0.
check_sell_trigger_NoZeroReturn(b) ==
    IF RLe(b.initial_price, Zero) THEN FALSE
    ELSE LET actual_growth ==
                 RMul(RDiv(RSub(b.price, b.initial_price), b.initial_price), Hundred)
             target_growth == b.target_growth_pct
         IN  IF target_growth = Zero THEN RLt(Zero, actual_growth)
             ELSE RLt(b.sell_trigger, RDiv(actual_growth, target_growth))

\* check_sell_trigger comparing the growth itself with the trigger.
check_sell_trigger_IgnoresTarget(b) ==
    IF RLe(b.initial_price, Zero) THEN FALSE
    ELSE RLt(b.sell_trigger,
             RMul(RDiv(RSub(b.price, b.initial_price), b.initial_price), Hundred))

check_sell_trigger(b) ==
    IF b.target_growth_pct = Zero THEN FALSE
    ELSE IF RLe(b.initial_price, Zero) THEN FALSE
    ELSE LET actual_growth ==
                 RMul(RDiv(RSub(b.price, b.initial_price), b.initial_price), Hundred)
             target_growth == b.target_growth_pct
         IN  IF target_growth = Zero THEN RLt(Zero, actual_growth)
             ELSE RLt(b.sell_trigger, RDiv(actual_growth, target_growth))

\* The buy trigger taken to fire for every standby bucket.
check_buy_trigger_Always(b) == TRUE

TargetPrice(b) ==
    RMul(b.initial_price, RAdd(One, RDiv(b.target_growth_pct, Hundred)))

check_buy_trigger(b) ==
    IF RLe(b.price, Zero) THEN FALSE
    ELSE LET discount_pct ==
                 RSub(RDiv(RMul(Hundred, TargetPrice(b)), b.price), Hundred)
         IN  RLt(b.buy_trigger, discount_pct)

_bucket_value_in_expenses_currency(b, fx_rate) == RMul(b.amount, fx_rate)

_cash_runway_months(bs, monthly_expense, fx_rates, expenses_currency) ==
    IF RLe(monthly_expense, Zero) THEN Inf
    ELSE LET total == RSum([j \in 1..Len(bs) |->
                 _bucket_value_in_expenses_currency(bs[j],
                     get_fx_rate(bs[j].currency, expenses_currency, fx_rates))])
         IN  RDiv(total, monthly_expense)
\* The runaway guard never skipping.
RunawayGuardSkips_Never(runway, b) == FALSE

\* rebalancer.py line 126: the runaway guard skips the bucket.
RunawayGuardSkips(runway, b) == RLt(runway, b.required_runaway_months)

\* The yearly frequency never skipping a month.
FrequencySkips_Never(b, month_idx) == FALSE

\* rebalancer.py line 118: a yearly bucket is skipped outside the first
\* month of a year.
FrequencySkips(b, month_idx) ==
    b.frequency = "yearly" /\ month_idx % MonthsPerYear # 0

\* The price update revaluing the holding with the new price.
UpdatePrice_Revalues(b, price) ==
    [b EXCEPT !.price = price, !.amount = RDiv(RMul(@, price), b.price)]

\* simulator.py line 76: the month's price is stored in the bucket state.
UpdatePrice(b, price) == [b EXCEPT !.price = price]

\* The reset leaving the net spending of the month before.
ResetTracking_KeepsNetSpent(b) ==
    [b EXCEPT !.amount_sold = Zero, !.amount_bought = Zero, !.fees_paid = Zero,
              !.tax_paid = Zero]

\* The reset leaving the sold amount of the month before.
ResetTracking_KeepsSold(b) ==
    [b EXCEPT !.amount_bought = Zero, !.fees_paid = Zero,
              !.tax_paid = Zero, !.net_spent = Zero]

\* rebalancer.py lines 106-111: zero the monthly counters of one bucket.
ResetTracking(b) ==
    [b EXCEPT !.amount_sold = Zero, !.amount_bought = Zero, !.fees_paid = Zero,
              !.tax_paid = Zero, !.net_spent = Zero]

\* Index of the bucket state a name resolves to (name_to_state), 0 if none.
NameToState(bs, name) ==
    IF \E j \in 1..Len(bs) : bs[j].name = name
    THEN CHOOSE j \in 1..Len(bs) :
             bs[j].name = name /\ \A l \in 1..Len(bs) : bs[l].name = name => l <= j
    ELSE 0

\* rebalancer.py line 148 / 201: tax = max(0, gain * pct / 100).
CapitalGainTax(gain, capital_gain_tax_pct) ==
    RMax(Zero, RDiv(RMul(gain, capital_gain_tax_pct), Hundred))

(***************************************************************************)
(* Phase 1, body of the loop for bucket number idx (lines 116-166).        *)
(* Returns the bucket states after the visit.                              *)
(***************************************************************************)
Phase1Body(bs, idx, month_expense, fx_rates, cfg, month_idx) ==
    LET b == bs[idx]
        runway == _cash_runway_months(bs, month_expense, fx_rates, cfg.expenses_currency)
        target_price == TargetPrice(b)
        excess_per_unit == RSub(b.price, target_price)
        fraction_excess == RDiv(excess_per_unit, b.price)
        sell_amount == RMul(b.amount, fraction_excess)
        sold == compute_sell(sell_amount, b.buy_sell_fee_pct)
        fx == get_fx_rate(b.currency, cfg.expenses_currency, fx_rates)
        cost_basis == RMul(sell_amount, RDiv(b.initial_price, b.price))
        gain == RSub(sold.net, cost_basis)
        tax == CapitalGainTax(gain, cfg.capital_gain_tax_pct)
        after_tax == RSub(sold.net, tax)
        bs1 == [bs EXCEPT ![idx] =
                   [b EXCEPT !.amount = RSub(b.amount, sell_amount),
                             !.amount_sold = RAdd(b.amount_sold, sell_amount),
                             !.fees_paid = RAdd(b.fees_paid, RMul(sold.fee, fx)),
                             !.tax_paid = RAdd(b.tax_paid, RMul(tax, fx))]]
        sidx == IF b.standby_bucket = None THEN 0
                ELSE NameToState(bs, b.standby_bucket)
    IN  IF FrequencySkips(b, month_idx) THEN bs
        ELSE IF ~check_sell_trigger(b) THEN bs
        ELSE IF RunawayGuardSkips(runway, b) THEN bs
        ELSE IF RLe(excess_per_unit, Zero) THEN bs
        ELSE IF RLe(sell_amount, Zero) THEN bs
        ELSE IF sidx = 0 THEN bs1
        ELSE LET standby == bs1[sidx]
                 standby_fx == get_fx_rate(standby.currency, cfg.expenses_currency, fx_rates)
                 buy_amount_standby ==
                     IF RLt(Zero, standby_fx)
                     THEN RDiv(RMul(after_tax, fx), standby_fx) ELSE Zero
                 bought == compute_buy(buy_amount_standby, standby.buy_sell_fee_pct)
             IN  IF ~check_buy_trigger(standby) THEN bs1
                 ELSE [bs1 EXCEPT ![sidx] =
                          [standby EXCEPT
                              !.amount = RAdd(standby.amount, bought.invested),
                              !.amount_bought = RAdd(standby.amount_bought, bought.invested),
                              !.fees_paid = RAdd(standby.fees_paid,
                                                 RMul(bought.fee, standby_fx))]]

(***************************************************************************)
(* Phase 2 (lines 168-214).                                                *)
(***************************************************************************)
\* The cascade visiting the buckets in configuration order.
SpendingOrder_ConfigOrder(bs) == [p \in 1..Len(bs) |-> p]

\* sorted(bucket_states, key=spending_priority): stable, as indices.
SpendingOrder(bs) ==
    LET N == Len(bs)
        Before(x, y) == \/ bs[x].spending_priority < bs[y].spending_priority
                        \/ /\ bs[x].spending_priority = bs[y].spending_priority
                           /\ x < y
    IN  [p \in 1..N |->
            CHOOSE x \in 1..N : Cardinality({y \in 1..N : Before(y, x)}) = p - 1]
\* The available value computed without the cash floor.
AvailableExpenses_NoFloor(b, fx, month_expense) == RMax(Zero, RMul(b.amount, fx))

\* lines 181-185: value of the bucket above its cash floor.
AvailableExpenses(b, fx, month_expense) ==
    LET bucket_value_expenses == RMul(b.amount, fx)
        floor_amount_expenses == RMul(b.cash_floor_months, month_expense)
    IN  RMax(Zero, RSub(bucket_value_expenses, floor_amount_expenses))

\* Body of the cascade loop for bucket number idx, entered with
\* remaining > 0 (lines 177-211).  Returns the states and what remains.
Phase2Body(bs, idx, remaining, month_expense, fx_rates, cfg) ==
    LET b == bs[idx]
        fx == get_fx_rate(b.currency, cfg.expenses_currency, fx_rates)
        available_expenses == AvailableExpenses(b, fx, month_expense)
        sell_expenses == RMin(remaining, available_expenses)
        sell_bucket_currency == RDiv(sell_expenses, fx)
        sold == compute_sell(sell_bucket_currency, b.buy_sell_fee_pct)
        cost_basis == IF RLt(Zero, b.price)
                      THEN RMul(sell_bucket_currency, RDiv(b.initial_price, b.price))
                      ELSE Zero
        gain == RSub(sold.net, cost_basis)
        tax == CapitalGainTax(gain, cfg.capital_gain_tax_pct)
        after_tax == RSub(sold.net, tax)
        net_in_expenses == RMul(after_tax, fx)
    IN  IF RLe(fx, Zero) THEN [bs |-> bs, remaining |-> remaining]
        ELSE IF RLe(available_expenses, Zero) THEN [bs |-> bs, remaining |-> remaining]
        ELSE [bs |-> [bs EXCEPT ![idx] =
                        [b EXCEPT !.amount = RSub(b.amount, sell_bucket_currency),
                                  !.amount_sold = RAdd(b.amount_sold, sell_bucket_currency),
                                  !.fees_paid = RAdd(b.fees_paid, RMul(sold.fee, fx)),
                                  !.tax_paid = RAdd(b.tax_paid, RMul(tax, fx)),
                                  !.net_spent = RAdd(b.net_spent, net_in_expenses)]],
              remaining |-> RSub(remaining, net_in_expenses)]

(***************************************************************************)
(* engine/simulator.py: bucket state construction and the output row.      *)
(***************************************************************************)
_init_bucket_state(bucket, price) ==
    [name |-> bucket.name,
     currency |-> bucket.currency,
     price |-> price,
     amount |-> bucket.initial_amount,
     initial_price |-> bucket.initial_price,
     target_growth_pct |-> bucket.target_growth_pct,
     buy_sell_fee_pct |-> bucket.buy_sell_fee_pct,
     sell_trigger |-> bucket.rebalancing.sell_trigger,
     standby_bucket |-> bucket.rebalancing.standby_bucket,
     buy_trigger |-> bucket.rebalancing.buy_trigger,
     buying_priority |-> bucket.rebalancing.buying_priority,
     required_runaway_months |-> bucket.rebalancing.required_runaway_months,
     spending_priority |-> bucket.rebalancing.spending_priority,
     cash_floor_months |-> bucket.rebalancing.cash_floor_months,
     frequency |-> bucket.rebalancing.frequency,
     amount_sold |-> Zero,
     amount_bought |-> Zero,
     fees_paid |-> Zero,
     tax_paid |-> Zero,
     net_spent |-> Zero]

\* simulator.py lines 89-110: the row of month index mi.
BuildRow(bs, mi, expense, fx_rates, cfg) ==
    [year |-> (mi \div MonthsPerYear) + 1,
     month |-> (mi % MonthsPerYear) + 1,
     expenses |-> expense,
     total_net_spent |-> RSum([j \in 1..Len(bs) |-> bs[j].net_spent]),
     buckets |-> [j \in 1..Len(bs) |->
        LET fx == get_fx_rate(bs[j].currency, cfg.expenses_currency, fx_rates)
        IN  [price |-> bs[j].price,
             price_exp |-> RMul(bs[j].price, fx),
             amount |-> bs[j].amount,
             amount_exp |-> RMul(bs[j].amount, fx),
             sold |-> bs[j].amount_sold,
             sold_exp |-> RMul(bs[j].amount_sold, fx),
             bought |-> bs[j].amount_bought,
             fees |-> bs[j].fees_paid,
             tax |-> bs[j].tax_paid,
             net_spent |-> bs[j].net_spent]]]

(***************************************************************************)
(* Configurations (models/*.py).  Every configuration below passes the     *)
(* validators of the models.                                               *)
(***************************************************************************)
RebalancingParams(freq, standby, runaway, sprio, floor) ==
    [frequency |-> freq,
     sell_trigger |-> Q(1, 10),
     standby_bucket |-> standby,
     buy_trigger |-> Rat(5),
     buying_priority |-> 0,
     required_runaway_months |-> runaway,
     spending_priority |-> sprio,
     cash_floor_months |-> floor]

InvestmentBucket(nm, cur, iprice, iamount, vol, fee, target, reb) ==
    [name |-> nm,
     currency |-> cur,
     initial_price |-> iprice,
     initial_amount |-> iamount,
     growth_min_pct |-> IF vol = "constant" THEN Zero ELSE Rat(-90),
     growth_max_pct |-> IF vol = "constant" THEN Zero ELSE Rat(1000),
     growth_avg_pct |-> Zero,
     volatility |-> vol,
     buy_sell_fee_pct |-> fee,
     target_growth_pct |-> target,
     rebalancing |-> reb]

CurrencySettings(cd, avg) ==
    [code |-> cd,
     initial_price |-> One,
     min_price |-> Zero,
     max_price |-> Rat(2),
     avg_price |-> avg,
     volatility |-> "constant"]

ExpensePeriod(year, month, lo, avg, hi, vol) ==
    [start_month |-> month,
     start_year |-> year,
     amount_min |-> lo,
     amount_max |-> hi,
     amount_avg |-> avg,
     volatility |-> vol]

OneTimeExpense(yr, mon, amt) == [month |-> mon, year |-> yr, amount |-> amt]

InflationSettings(lo, avg, hi, vol) ==
    [min_pct |-> lo, max_pct |-> hi, avg_pct |-> avg, volatility |-> vol]

SimConfig(years, tax, periods, otes, bucketSeq, currencySeq) ==
    [period_years |-> years,
     expenses_currency |-> "USD",
     capital_gain_tax_pct |-> tax,
     inflation |-> InflationSettings(Zero, Zero, Zero, "constant"),
     expense_periods |-> periods,
     one_time_expenses |-> otes,
     buckets |-> bucketSeq,
     currencies |-> currencySeq]

\* The growth bucket of the trial configurations.
StockBuckets(fee) ==
    { InvestmentBucket("Stock", "EUR", Rat(10), Rat(10), "sp500", fee, target,
          RebalancingParams("monthly", standby, runaway, sprio, floor)) :
        target \in {Rat(-200), Zero, Rat(50)},
        standby \in {None, "Cash", "Gone"},
        runaway \in {Zero, Rat(6)},
        sprio \in {0, 1},
        floor \in {Zero, Rat(2)} }

\* The cash bucket of the trial configurations.
CashBuckets ==
    { InvestmentBucket("Cash", "USD", Rat(1), Rat(20), "constant", Zero, Rat(10),
          RebalancingParams("monthly", None, Zero, 0, Zero)) }

\* <<buy_sell_fee_pct of the growth bucket, capital_gain_tax_pct>>
FeeAndTax == { <<Zero, Zero>>, <<Rat(20), Zero>>, <<Rat(20), Rat(50)>> }

\* Constant expense schedules: 0,0,..  0,0,5,..  40,40,..  5,5,40,..
ExpenseSchedules ==
    { <<>>,
      <<ExpensePeriod(1, 3, Rat(5), Rat(5), Rat(5), "constant")>>,
      <<ExpensePeriod(1, 1, Rat(40), Rat(40), Rat(40), "constant")>>,
      <<ExpensePeriod(1, 3, Rat(40), Rat(40), Rat(40), "constant"),
        ExpensePeriod(1, 1, Rat(5), Rat(5), Rat(5), "constant")>> }

TrialConfigs ==
    UNION { { SimConfig(1, ft[2], periods, <<>>, <<stock, cash>>,
                        <<CurrencySettings("EUR", fx)>>) :
                periods \in ExpenseSchedules,
                stock \in StockBuckets(ft[1]),
                cash \in CashBuckets,
                fx \in {Rat(2), Zero} } : ft \in FeeAndTax }

(***************************************************************************)
(* The stochastic generators.  Each operator is the set of series the      *)
(* generator can return for its settings: the one deterministic series of  *)
(* a constant profile, otherwise series within the generator's clamps.     *)
(***************************************************************************)
Const(n, a) == [t \in 1..n |-> a]

Step(n, a, b, at) == [t \in 1..n |-> IF t < at THEN a ELSE b]

\* Value peak in the first two months of every year, base otherwise.
Pulse(n, base, peak) ==
    [t \in 1..n |-> IF (t - 1) % MonthsPerYear < 2 THEN peak ELSE base]

\* engine/inflation.py: monthly fractions, clamped to [min, max].
simulate_monthly_inflation(settings, n) ==
    LET avg_monthly == RDiv(RDiv(settings.avg_pct, Hundred), Rat(12))
        min_monthly == RDiv(RDiv(settings.min_pct, Hundred), Rat(12))
        max_monthly == RDiv(RDiv(settings.max_pct, Hundred), Rat(12))
    IN  IF settings.volatility = "constant" THEN { Const(n, avg_monthly) }
        ELSE { Step(n, a, b, 2) : a, b \in {min_monthly, max_monthly} }

\* engine/currency.py: constant profile pins the average, otherwise the
\* walk is clipped to [min_price, max_price].
simulate_fx_rates(settings, n) ==
    IF settings.volatility = "constant" THEN { Const(n, settings.avg_price) }
    ELSE { Step(n, a, b, 2) : a, b \in {settings.min_price, settings.max_price} }

\* x ** (1 / 12), exact on the twelfth powers the configurations use.
Root12(x) == CHOOSE r \in {Zero, Q(1, 2), One, Rat(2)} : RPow(r, 12) = x

\* bucket.py line 24 / 31: 1 + monthly growth of a yearly growth in percent.
MonthlyFactor(growth_pct) == Root12(RAdd(One, RDiv(growth_pct, Hundred)))

\* bucket.py lines 22-28: the constant profile compounds the monthly growth.
ConstantPrices(bucket, n) ==
    [t \in 1..n |->
        RMul(bucket.initial_price, RPow(MonthlyFactor(bucket.growth_avg_pct), t))]

\* engine/bucket.py: constant profile compounds the average growth,
\* otherwise a positive random walk.
simulate_bucket_prices(bucket, n) ==
    IF bucket.volatility = "constant" THEN { ConstantPrices(bucket, n) }
    ELSE { Pulse(n, bucket.initial_price, RMul(bucket.initial_price, f)) :
              f \in {One, Rat(3), Q(1, 2)} }

(***************************************************************************)
(* One iteration of each generator loop.  z is the standard normal value   *)
(* behind the draw: rng.normal(mu, sigma) = mu + sigma * z.                *)
(***************************************************************************)
\* utils/volatility.py: monthly_sigma of the profiles.
get_volatility_spec(profile) ==
    CASE profile = "constant" -> Zero
      [] profile = "gov_bonds" -> Q(5, 1000)
      [] profile = "sp500" -> Q(4, 100)
      [] profile = "gold" -> Q(25, 1000)
      [] profile = "bitcoin" -> Q(15, 100)

get_expense_volatility_spec(profile) ==
    CASE profile = "constant" -> Zero
      [] profile = "moderate" -> Q(3, 100)
      [] profile = "crazy" -> Q(8, 100)

get_inflation_volatility_spec(profile) ==
    CASE profile = "constant" -> Zero
      [] profile = "mild" -> Q(2, 1000)
      [] profile = "crazy" -> Q(1, 100)

\* np.exp(x) by its expansion 1 + x + x^2 / 2 for x >= 0 and the reciprocal
\* of exp(-x) for x < 0: positive, 1 at 0 and increasing like exp.
ExpApprox(x) ==
    LET a == IF RLt(x, Zero) THEN RSub(Zero, x) ELSE x
        e == RAdd(RAdd(One, a), RDiv(RMul(a, a), Rat(2)))
    IN  IF RLt(x, Zero) THEN RDiv(One, e) ELSE e

\* inflation.py lines 36-40: the next monthly rate.
InflationStep(settings, current, z) ==
    LET avg_monthly == RDiv(RDiv(settings.avg_pct, Hundred), Rat(12))
        min_monthly == RDiv(RDiv(settings.min_pct, Hundred), Rat(12))
        max_monthly == RDiv(RDiv(settings.max_pct, Hundred), Rat(12))
        drift == RMul(Q(1, 10), RSub(avg_monthly, current))
        shock == RMul(RDiv(get_inflation_volatility_spec(settings.volatility), Rat(12)),
                      Rat(z))
    IN  Clip(RAdd(RAdd(current, drift), shock), min_monthly, max_monthly)

\* currency.py lines 75-81: the next FX price.  np.log of a negative value
\* is NaN and of 0 is -inf; exp(log(c) + 0.05 * (log(avg) - log(c))) is taken
\* to first order, c + 0.05 * (avg - c).
FxStep(settings, current, z) ==
    LET avg == settings.avg_price
        shock == RMul(get_volatility_spec(settings.volatility), Rat(z))
        reverted == RAdd(current, RMul(Q(5, 100), RSub(avg, current)))
        new == IF current = NaN \/ RLe(current, Zero) \/ RLt(avg, Zero) THEN NaN
               ELSE IF avg = Zero THEN Zero
               ELSE RMul(reverted, ExpApprox(shock))
    IN  Clip(new, settings.min_price, settings.max_price)

\* bucket.py lines 31-42: the next bucket price.  The clamp of the log
\* return is applied to its exponential, the growth factor of the month.
PriceStep(bucket, current, z) ==
    LET sigma == get_volatility_spec(bucket.volatility)
        factor == RMul(MonthlyFactor(bucket.growth_avg_pct), ExpApprox(RMul(sigma, Rat(z))))
        lo == RMul(MonthlyFactor(bucket.growth_min_pct), ExpApprox(Q(-1, 100)))
        hi == RMul(MonthlyFactor(bucket.growth_max_pct), ExpApprox(Q(1, 100)))
    IN  RMax(RMul(current, Clip(factor, lo, hi)), Q(1, 1000))

\* expenses.py line 60: rng.normal(amount_avg, sigma * amount_avg) as a
\* multiple of amount_avg.
ExpenseDraw(period, z) ==
    RAdd(One, RMul(get_expense_volatility_spec(period.volatility), Rat(z)))

(***************************************************************************)
(* engine/expenses.py: the expense schedule.                               *)
(***************************************************************************)
StartIdx(p) == (p.start_year - 1) * MonthsPerYear + (p.start_month - 1)

\* sorted(expense_periods, key=start index): stable, as indices.
SortedPeriods(periods) ==
    LET N == Len(periods)
        Before(x, y) == \/ StartIdx(periods[x]) < StartIdx(periods[y])
                        \/ StartIdx(periods[x]) = StartIdx(periods[y]) /\ x < y
    IN  [p \in 1..N |->
            periods[CHOOSE x \in 1..N : Cardinality({y \in 1..N : Before(y, x)}) = p - 1]]

\* The first period that has started, never overridden by a later one.
PeriodForMonth_FirstStarted(periods, mi, n) ==
    LET sp == SortedPeriods(periods)
        hits == {idx \in 1..Len(sp) : StartIdx(sp[idx]) <= mi}
    IN  IF hits = {} THEN 0
        ELSE CHOOSE idx \in hits : \A o \in hits : idx <= o

\* lines 29-39: position in sorted_periods of the period written last into
\* period_for_month[mi], 0 for None.
PeriodForMonth(periods, mi, n) ==
    LET sp == SortedPeriods(periods)
        EndIdx(idx) == IF idx + 1 <= Len(sp) THEN StartIdx(sp[idx + 1]) ELSE n
        Covers(idx) == StartIdx(sp[idx]) <= mi /\ mi < EndIdx(idx)
        hits == {idx \in 1..Len(sp) : Covers(idx)}
    IN  IF hits = {} THEN 0
        ELSE CHOOSE idx \in hits : \A o \in hits : o <= idx

\* lines 42-47: cumulative inflation factor of month index mi.
CumInflation(inflation_rates, mi) ==
    RProd([t \in 1..(mi + 1) |-> RAdd(One, inflation_rates[t])], 1, mi + 1)

\* lines 67-70: sum of the one-time expenses of month index mi.
RECURSIVE OneTimeSum(_, _, _)
OneTimeSum(otes, mi, cum) ==
    IF otes = <<>> THEN Zero
    ELSE LET ote == Head(otes)
             m_idx == (ote.year - 1) * MonthsPerYear + (ote.month - 1)
         IN  RAdd(IF m_idx = mi THEN RMul(ote.amount, cum) ELSE Zero,
                  OneTimeSum(Tail(otes), mi, cum))

\* draws[t]: what rng.normal returns for month t, as a multiple of
\* amount_avg, before it is clipped.
compute_monthly_expenses(periods, otes, inflation_rates, n, draws) ==
    [t \in 1..n |->
        LET pidx == PeriodForMonth(periods, t - 1, n)
            period == SortedPeriods(periods)[pidx]
            cum == CumInflation(inflation_rates, t - 1)
            base == IF pidx = 0 THEN Zero
                    ELSE IF period.volatility = "constant" THEN period.amount_avg
                    ELSE RMax(period.amount_min,
                              RMin(period.amount_max, RMul(period.amount_avg, draws[t])))
        IN  RAdd(IF pidx = 0 THEN Zero ELSE RMul(base, cum),
                 OneTimeSum(otes, t - 1, cum))]

\* The draws of the expense builder: none are made for constant periods.
ExpenseDraws(periods, n) ==
    IF \A j \in 1..Len(periods) : periods[j].volatility = "constant"
    THEN { Const(n, One) }
    ELSE { Step(n, a, b, 5) : a \in {One}, b \in {One, Rat(2)} }
           \cup { Const(n, Rat(3)) }

(***************************************************************************)
(* State.                                                                  *)
(***************************************************************************)
VARIABLES
    config,               \* SimConfig given to run_simulation / run_monte_carlo
    inflation_rates,      \* simulator.py: monthly inflation series
    fx_price_series,      \* simulator.py: code -> series
    bucket_price_series,  \* simulator.py: name -> series
    expenses,             \* simulator.py: monthly expense series
    bucket_states,        \* simulator.py: list of BucketState
    m,                    \* simulator.py: month index of the loop
    rows,                 \* simulator.py: rows of the output table
    pc,                   \* position inside run_simulation / execute_rebalance
    i,                    \* rebalancer.py: index of the Phase-1 loop
    k,                    \* rebalancer.py: index into spending_order
    remaining_expense,    \* rebalancer.py: remaining_expense
    total_covered,        \* simulator.py: value returned by execute_rebalance
    n_simulations,        \* montecarlo.py: argument
    progress_callback,    \* montecarlo.py: TRUE iff a callback is given
    sim,                  \* montecarlo.py: number of trials started
    all_frames,           \* montecarlo.py: collected tables
    success_count,        \* montecarlo.py
    calls,                \* arguments the progress callback was called with
    mc_pc,                \* position inside run_monte_carlo
    result,               \* <<MonteCarloResult>> once returned, <<>> before
    exception,            \* exception run_monte_carlo raised, or None
    rejected,             \* montecarlo_dialog.py: the dialog was closed
    rng,                  \* the np.random.Generator: its stream and position
    rng_draws,            \* who made each draw from rng so far, in order
    gen,                  \* simulator.py: index of the currency / bucket loop
    prices,               \* the array a generator is filling (rates, prices)
    _config,              \* main_window.py: MainWindow._config
    thread_shares_config, \* SimulationThread.config is the object _config names
    _tax,                 \* global_panel.py: value of the tax spin box
    _act_run,             \* main_window.py: the Run Simulation action is enabled
    _sim_thread,          \* "none", "running", or "finished" (signal emitted)
    _dirty,               \* main_window.py: MainWindow._dirty
    mc_dialog,            \* the modal MonteCarloDialog is open
    closed                \* the close event of the main window was accepted

trialVars == <<inflation_rates, fx_price_series, bucket_price_series, expenses, bucket_states,
               m, rows, pc, i, k, remaining_expense, total_covered>>
mcVars == <<n_simulations, progress_callback, sim, all_frames, success_count,
            calls, mc_pc, result, exception, rejected>>
genVars == <<rng, rng_draws, gen, prices>>
guiVars == <<_config, thread_shares_config, _tax, _act_run, _sim_thread, _dirty,
             mc_dialog, closed>>
vars == <<config, trialVars, mcVars, genVars, guiVars>>

n_months == config.period_years * MonthsPerYear
NBuckets == Len(config.buckets)

\* simulator.py lines 79-81: the FX table of month index mi.
CurrentFx(mi) ==
    [c \in {config.currencies[j].code : j \in 1..Len(config.currencies)} |->
        fx_price_series[c][mi + 1]]

\* The bucket states of the call before taken over when there are any.
NewBucketStates_Shared(cfg) ==
    IF bucket_states # <<>> THEN bucket_states
    ELSE [j \in 1..Len(cfg.buckets) |->
             _init_bucket_state(cfg.buckets[j], cfg.buckets[j].initial_price)]

\* simulator.py lines 62-66: one new BucketState for every bucket.
NewBucketStates(cfg) ==
    [j \in 1..Len(cfg.buckets) |->
        _init_bucket_state(cfg.buckets[j], cfg.buckets[j].initial_price)]

TrialIdle ==
    /\ inflation_rates = <<>>
    /\ fx_price_series = <<>>
    /\ bucket_price_series = <<>>
    /\ expenses = <<>>
    /\ bucket_states = <<>>
    /\ m = 0
    /\ rows = <<>>
    /\ i = 0
    /\ k = 0
    /\ remaining_expense = Zero
    /\ total_covered = Zero

McIdle ==
    /\ n_simulations = 0
    /\ progress_callback = FALSE
    /\ sim = 0
    /\ all_frames = <<>>
    /\ success_count = 0
    /\ calls = <<>>
    /\ mc_pc = "none"
    /\ result = <<>>
    /\ exception = None
    /\ rejected = FALSE

\* No generator has been stepped.
GenIdle ==
    /\ rng = [draws |-> <<0>>, pos |-> 0]
    /\ rng_draws = <<>>
    /\ gen = 0
    /\ prices = <<>>

\* No main window: the engine is called directly.
GuiIdle ==
    /\ _config = <<>>
    /\ thread_shares_config = FALSE
    /\ _tax = Zero
    /\ _act_run = FALSE
    /\ _sim_thread = "none"
    /\ _dirty = FALSE
    /\ mc_dialog = FALSE
    /\ closed = FALSE

(***************************************************************************)
(* run_simulation (simulator.py lines 34-114).                             *)
(***************************************************************************)
\* lines 41-66: run the generators in their fixed order, build the expense
\* series, create the bucket states.
RunSimulationStart ==
    /\ pc = "start"
    /\ \E infl \in simulate_monthly_inflation(config.inflation, n_months) :
       \E fxs \in [ {config.currencies[j].code : j \in 1..Len(config.currencies)} ->
                    UNION {simulate_fx_rates(config.currencies[j], n_months) :
                              j \in 1..Len(config.currencies)} ] :
       \E bps \in [ {config.buckets[j].name : j \in 1..NBuckets} ->
                    UNION {simulate_bucket_prices(config.buckets[j], n_months) :
                              j \in 1..NBuckets} ] :
       \E draws \in ExpenseDraws(config.expense_periods, n_months) :
        /\ \A j \in 1..Len(config.currencies) :
              fxs[config.currencies[j].code] \in
                  simulate_fx_rates(config.currencies[j], n_months)
        /\ \A j \in 1..NBuckets :
              bps[config.buckets[j].name] \in
                  simulate_bucket_prices(config.buckets[j], n_months)
        /\ inflation_rates' = infl
        /\ fx_price_series' = fxs
        /\ bucket_price_series' = bps
        /\ expenses' = compute_monthly_expenses(config.expense_periods,
               config.one_time_expenses, infl, n_months, draws)
    /\ bucket_states' = NewBucketStates(config)
    /\ m' = 0
    /\ rows' = <<>>
    /\ pc' = IF n_months > 0 THEN "month" ELSE "done"
    /\ UNCHANGED <<guiVars, config, genVars, i, k, remaining_expense, total_covered, mcVars>>

\* lines 74-76: this month's prices; rebalancer.py lines 105-114: the
\* monthly counters are reset on entry of execute_rebalance.
MonthBegin ==
    /\ pc = "month"
    /\ bucket_states' = [j \in 1..NBuckets |->
           ResetTracking(UpdatePrice(bucket_states[j],
               bucket_price_series[config.buckets[j].name][m + 1]))]
    /\ i' = 1
    /\ pc' = "phase1"
    /\ UNCHANGED <<guiVars, config, genVars, inflation_rates, fx_price_series, bucket_price_series, expenses, m, rows,
                   k, remaining_expense, total_covered, mcVars>>

\* rebalancer.py lines 116-166: one iteration of the Phase-1 loop.
Phase1Visit ==
    /\ pc = "phase1"
    /\ i <= NBuckets
    /\ bucket_states' = Phase1Body(bucket_states, i, expenses[m + 1], CurrentFx(m), config, m)
    /\ i' = i + 1
    /\ UNCHANGED <<guiVars, config, genVars, inflation_rates, fx_price_series, bucket_price_series, expenses, m, rows,
                   pc, k, remaining_expense, total_covered, mcVars>>

\* rebalancer.py lines 169-171: start of the cascade.
Phase2Begin ==
    /\ pc = "phase1"
    /\ i > NBuckets
    /\ remaining_expense' = expenses[m + 1]
    /\ k' = 1
    /\ pc' = "phase2"
    /\ UNCHANGED <<guiVars, config, genVars, inflation_rates, fx_price_series, bucket_price_series, expenses,
                   bucket_states, m, rows, i, total_covered, mcVars>>

\* rebalancer.py lines 173-211: one iteration of the cascade loop.
Phase2Visit ==
    /\ pc = "phase2"
    /\ k <= NBuckets
    /\ RLt(Zero, remaining_expense)
    /\ LET r == Phase2Body(bucket_states, SpendingOrder(bucket_states)[k],
                           remaining_expense, expenses[m + 1], CurrentFx(m), config)
       IN  /\ bucket_states' = r.bs
           /\ remaining_expense' = r.remaining
    /\ k' = k + 1
    /\ UNCHANGED <<guiVars, config, genVars, inflation_rates, fx_price_series, bucket_price_series, expenses, m, rows,
                   pc, i, total_covered, mcVars>>

\* The return value taken to be what is left to pay.
TotalCovered_Remaining(month_expense, remaining) == RMax(Zero, remaining)

\* rebalancer.py lines 213-214: the value execute_rebalance returns.
TotalCovered(month_expense, remaining) == RSub(month_expense, RMax(Zero, remaining))

\* rebalancer.py lines 174-175, 213-214: the loop ends, the call returns;
\* simulator.py lines 88-112: the row is appended.
MonthEnd ==
    /\ pc = "phase2"
    /\ k > NBuckets \/ RLe(remaining_expense, Zero)
    /\ total_covered' = TotalCovered(expenses[m + 1], remaining_expense)
    /\ rows' = Append(rows, BuildRow(bucket_states, m, expenses[m + 1], CurrentFx(m), config))
    /\ m' = m + 1
    /\ pc' = IF m + 1 < n_months THEN "month" ELSE "done"
    /\ UNCHANGED <<guiVars, config, genVars, inflation_rates, fx_price_series, bucket_price_series, expenses,
                   bucket_states, i, k, remaining_expense, mcVars>>

TrialStep == MonthBegin \/ Phase1Visit \/ Phase2Begin \/ Phase2Visit \/ MonthEnd

(***************************************************************************)
(* One trial: run_simulation called with a configuration.                  *)
(***************************************************************************)
InitTrial ==
    /\ config \in TrialConfigs
    /\ pc = "start"
    /\ TrialIdle
    /\ McIdle
    /\ GenIdle
    /\ GuiIdle

NextTrial == RunSimulationStart \/ TrialStep

SpecTrial == InitTrial /\ [][NextTrial]_vars

(***************************************************************************)
(* Trials of the rebalancer's corner cases: yearly frequency over two      *)
(* years, standby buckets whose buy trigger fires or not, fees above 100   *)
(* percent, FX rates of zero and below, a price of zero.                   *)
(***************************************************************************)
\* <<buy_sell_fee_pct of the growth bucket, of the standby bucket>>
FeePairs == { <<Zero, Zero>>, <<Rat(20), Rat(20)>>, <<Rat(300), Rat(300)>> }

\* <<FX rate of EUR, FX rate of GBP>>
FxPairs == { <<Rat(2), Q(1, 2)>>, <<Rat(2), Zero>>, <<Rat(2), Rat(-1)>>,
             <<Rat(-1), Q(1, 2)>> }

\* A currency of constant rate; the rate may be zero or negative.
ConstantCurrency(cd, rate) ==
    [CurrencySettings(cd, rate) EXCEPT !.min_price = RMin(Zero, rate)]

\* Expenses of 5 a month from the eleventh month on.
LateExpenses == <<ExpensePeriod(1, 11, Rat(5), Rat(5), Rat(5), "constant")>>

SkimConfigs ==
    { SimConfig(IF freq = "yearly" THEN 2 ELSE 1, tax, LateExpenses, <<>>,
          <<InvestmentBucket("Stock", "EUR", Rat(10), Rat(10), "sp500", fees[1], Rat(50),
                RebalancingParams(freq, standby, Zero, 1, Zero)),
            InvestmentBucket("Cash", ccy, Rat(1), Rat(20), "constant", fees[2], target,
                RebalancingParams(IF freq = "yearly" THEN "monthly" ELSE "yearly",
                                  None, Zero, 0, Zero))>>,
          <<ConstantCurrency("EUR", fx[1]), ConstantCurrency("GBP", fx[2])>>) :
        freq \in {"monthly", "yearly"},
        standby \in {None, "Cash", "Gone"},
        fees \in FeePairs,
        tax \in {Zero, Rat(50)},
        ccy \in {"USD", "GBP"},
        target \in {Zero, Rat(10)},
        fx \in FxPairs }

\* A bucket that loses everything: its price is 0 in every month.
ZeroPriceConfigs ==
    { SimConfig(1, Zero, LateExpenses, <<>>,
          <<[InvestmentBucket("Stock", "EUR", Rat(10), Rat(10), "constant", Zero, target,
                 RebalancingParams("monthly", "Cash", Zero, 1, Zero))
                EXCEPT !.growth_min_pct = Rat(-100), !.growth_avg_pct = Rat(-100),
                       !.growth_max_pct = Rat(-100)],
            InvestmentBucket("Cash", "USD", Rat(1), Rat(20), "constant", Zero, Rat(10),
                RebalancingParams("monthly", None, Zero, 0, Zero))>>,
          <<ConstantCurrency("EUR", Rat(2)), ConstantCurrency("GBP", Q(1, 2))>>) :
        target \in {Rat(-200), Rat(-50), Zero, Rat(50)} }

RebalanceConfigs == SkimConfigs \cup ZeroPriceConfigs

InitRebalance ==
    /\ config \in RebalanceConfigs
    /\ pc = "start"
    /\ TrialIdle
    /\ McIdle
    /\ GenIdle
    /\ GuiIdle

SpecRebalance == InitRebalance /\ [][NextTrial]_vars

(***************************************************************************)
(* run_simulation generator by generator (simulator.py lines 41-66), every *)
(* draw from rng one step.                                                 *)
(***************************************************************************)
\* The standard normal value behind the next draw of rng.
NextZ == rng.draws[(rng.pos % Len(rng.draws)) + 1]

\* count draws are made from rng on behalf of who.
Draw(who, count) ==
    /\ rng' = [rng EXCEPT !.pos = @ + count]
    /\ rng_draws' = rng_draws \o [d \in 1..count |-> who]

\* dict assignment series[key] = value
SetItem(series, key, value) ==
    [c \in DOMAIN series \cup {key} |-> IF c = key THEN value ELSE series[c]]
\* The bucket prices generated before the FX series.
StageAfter_PricesFirst(stage) ==
    CASE stage = "inflation" -> "prices"
      [] stage = "prices" -> "fx"
      [] stage = "fx" -> "expenses"

\* simulator.py lines 44-60: the order in which the generators are run.
StageAfter(stage) ==
    CASE stage = "inflation" -> "fx"
      [] stage = "fx" -> "prices"
      [] stage = "prices" -> "expenses"

\* simulator.py line 44, inflation.py lines 18-43.
GenInflation ==
    /\ pc = "inflation"
    /\ LET settings == config.inflation
           avg_monthly == RDiv(RDiv(settings.avg_pct, Hundred), Rat(12))
           current == IF prices = <<>> THEN avg_monthly ELSE prices[Len(prices)]
       IN  IF settings.volatility = "constant"
           THEN /\ inflation_rates' \in simulate_monthly_inflation(settings, n_months)
                /\ pc' = StageAfter("inflation")
                /\ gen' = 1
                /\ UNCHANGED <<guiVars, prices, rng, rng_draws>>
           ELSE IF Len(prices) < n_months
           THEN /\ prices' = Append(prices, InflationStep(settings, current, NextZ))
                /\ Draw([by |-> "inflation", idx |-> 1], 1)
                /\ UNCHANGED <<guiVars, inflation_rates, pc, gen>>
           ELSE /\ inflation_rates' = prices
                /\ prices' = <<>>
                /\ pc' = StageAfter("inflation")
                /\ gen' = 1
                /\ UNCHANGED <<guiVars, rng, rng_draws>>
    /\ UNCHANGED <<guiVars, config, fx_price_series, bucket_price_series, expenses, bucket_states,
                   m, rows, i, k, remaining_expense, total_covered, mcVars>>

\* simulator.py lines 47-49, currency.py lines 22-40.
GenFx ==
    /\ pc = "fx"
    /\ IF gen > Len(config.currencies)
       THEN /\ pc' = StageAfter("fx")
            /\ gen' = 1
            /\ UNCHANGED <<guiVars, fx_price_series, prices, rng, rng_draws>>
       ELSE LET cs == config.currencies[gen]
                current == IF prices = <<>> THEN cs.initial_price ELSE prices[Len(prices)]
            IN  IF cs.volatility = "constant"
                THEN /\ \E series \in simulate_fx_rates(cs, n_months) :
                            fx_price_series' = SetItem(fx_price_series, cs.code, series)
                     /\ gen' = gen + 1
                     /\ UNCHANGED <<guiVars, pc, prices, rng, rng_draws>>
                ELSE IF Len(prices) < n_months
                THEN /\ prices' = Append(prices, FxStep(cs, current, NextZ))
                     /\ Draw([by |-> "fx", idx |-> gen], 1)
                     /\ UNCHANGED <<guiVars, fx_price_series, pc, gen>>
                ELSE /\ fx_price_series' = SetItem(fx_price_series, cs.code, prices)
                     /\ prices' = <<>>
                     /\ gen' = gen + 1
                     /\ UNCHANGED <<guiVars, pc, rng, rng_draws>>
    /\ UNCHANGED <<guiVars, config, inflation_rates, bucket_price_series, expenses, bucket_states,
                   m, rows, i, k, remaining_expense, total_covered, mcVars>>

\* simulator.py lines 52-54, bucket.py lines 17-45.
GenBucketPrices ==
    /\ pc = "prices"
    /\ IF gen > NBuckets
       THEN /\ pc' = StageAfter("prices")
            /\ gen' = 1
            /\ UNCHANGED <<guiVars, bucket_price_series, prices, rng, rng_draws>>
       ELSE LET bucket == config.buckets[gen]
                current == IF prices = <<>> THEN bucket.initial_price
                           ELSE prices[Len(prices)]
            IN  IF bucket.volatility = "constant"
                THEN /\ bucket_price_series' =
                            SetItem(bucket_price_series, bucket.name,
                                    ConstantPrices(bucket, n_months))
                     /\ gen' = gen + 1
                     /\ UNCHANGED <<guiVars, pc, prices, rng, rng_draws>>
                ELSE IF Len(prices) < n_months
                THEN /\ prices' = Append(prices, PriceStep(bucket, current, NextZ))
                     /\ Draw([by |-> "bucket", idx |-> gen], 1)
                     /\ UNCHANGED <<guiVars, bucket_price_series, pc, gen>>
                ELSE /\ bucket_price_series' =
                            SetItem(bucket_price_series, bucket.name, prices)
                     /\ prices' = <<>>
                     /\ gen' = gen + 1
                     /\ UNCHANGED <<guiVars, pc, rng, rng_draws>>
    /\ UNCHANGED <<guiVars, config, inflation_rates, fx_price_series, expenses, bucket_states,
                   m, rows, i, k, remaining_expense, total_covered, mcVars>>

\* simulator.py lines 57-60, expenses.py lines 20-64: the recurring
\* expenses; a month draws when its period is not constant, months in order.
GenExpenses ==
    /\ pc = "expenses"
    /\ LET periods == config.expense_periods
           Period(t) == SortedPeriods(periods)[PeriodForMonth(periods, t - 1, n_months)]
           Drawing(t) == /\ PeriodForMonth(periods, t - 1, n_months) # 0
                         /\ Period(t).volatility # "constant"
           Before(t) == Cardinality({u \in 1..(t - 1) : Drawing(u)})
           ZAt(q) == rng.draws[((rng.pos + q) % Len(rng.draws)) + 1]
           draws == [t \in 1..n_months |->
                        IF Drawing(t) THEN ExpenseDraw(Period(t), ZAt(Before(t))) ELSE One]
       IN  /\ expenses' = compute_monthly_expenses(periods, <<>>, inflation_rates,
                                                   n_months, draws)
           /\ Draw([by |-> "expenses", idx |-> 1],
                   Cardinality({t \in 1..n_months : Drawing(t)}))
    /\ pc' = "onetime"
    /\ gen' = 1
    /\ UNCHANGED <<guiVars, config, inflation_rates, fx_price_series, bucket_price_series,
                   bucket_states, m, rows, i, k, remaining_expense, total_covered,
                   mcVars, prices>>
\* The one-time expense written over the month's expense.
ApplyOneTime_Overwrite(exp, ote, inflation, n) ==
    LET m_idx == (ote.year - 1) * MonthsPerYear + (ote.month - 1)
    IN  IF 0 <= m_idx /\ m_idx < n
        THEN [exp EXCEPT ![m_idx + 1] = RMul(ote.amount, CumInflation(inflation, m_idx))]
        ELSE exp

\* expenses.py lines 68-70: one one-time expense is added.
ApplyOneTime(exp, ote, inflation, n) ==
    LET m_idx == (ote.year - 1) * MonthsPerYear + (ote.month - 1)
    IN  IF 0 <= m_idx /\ m_idx < n
        THEN [exp EXCEPT ![m_idx + 1] =
                 RAdd(@, RMul(ote.amount, CumInflation(inflation, m_idx)))]
        ELSE exp

\* expenses.py lines 67-72: one iteration of the one-time loop, or the return.
OneTimeVisit ==
    /\ pc = "onetime"
    /\ IF gen > Len(config.one_time_expenses)
       THEN /\ pc' = "states"
            /\ UNCHANGED <<guiVars, expenses, gen>>
       ELSE /\ expenses' = ApplyOneTime(expenses, config.one_time_expenses[gen],
                                        inflation_rates, n_months)
            /\ gen' = gen + 1
            /\ pc' = pc
    /\ UNCHANGED <<guiVars, config, inflation_rates, fx_price_series, bucket_price_series,
                   bucket_states, m, rows, i, k, remaining_expense, total_covered,
                   mcVars, rng, rng_draws, prices>>

\* simulator.py lines 62-70: the bucket states, the empty table.
InitBucketStates ==
    /\ pc = "states"
    /\ bucket_states' = NewBucketStates(config)
    /\ m' = 0
    /\ rows' = <<>>
    /\ pc' = IF n_months > 0 THEN "month" ELSE "done"
    /\ UNCHANGED <<guiVars, config, inflation_rates, fx_price_series, bucket_price_series,
                   expenses, i, k, remaining_expense, total_covered, mcVars, genVars>>

(***************************************************************************)
(* One trial, its generators stepped: run_simulation called with a         *)
(* configuration and a random generator.                                   *)
(***************************************************************************)
\* tests/test_simulator.py _make_config: one constant bucket of 50,000 at
\* price 1, 500 per month, no inflation, two years.
E2EConfig ==
    SimConfig(2, Zero,
        <<ExpensePeriod(1, 1, Rat(500), Rat(500), Rat(500), "constant")>>, <<>>,
        <<InvestmentBucket("Cash", "USD", Rat(1), Rat(50000), "constant", Zero, Zero,
              [RebalancingParams("monthly", None, Rat(6), 0, Zero)
                  EXCEPT !.sell_trigger = Q(3, 2)])>>,
        <<>>)

\* Expense periods: none; from month 0; two configured out of order with
\* months before the first; two starting together; one past the horizon.
PeriodSchedules ==
    { <<>>,
      <<ExpensePeriod(1, 1, Rat(5), Rat(5), Rat(5), "constant")>>,
      <<ExpensePeriod(1, 6, Rat(40), Rat(40), Rat(40), "constant"),
        ExpensePeriod(1, 3, Rat(5), Rat(5), Rat(5), "constant")>>,
      <<ExpensePeriod(1, 3, Rat(5), Rat(5), Rat(5), "constant"),
        ExpensePeriod(1, 3, Rat(40), Rat(40), Rat(40), "constant")>>,
      <<ExpensePeriod(2, 1, Rat(40), Rat(40), Rat(40), "constant"),
        ExpensePeriod(1, 1, Rat(5), Rat(5), Rat(5), "constant")>> }

\* One-time expenses: none; one; two on one month; one past the horizon.
OneTimeLists ==
    { <<>>,
      <<OneTimeExpense(1, 4, Rat(7))>>,
      <<OneTimeExpense(1, 4, Rat(7)), OneTimeExpense(1, 4, Rat(3))>>,
      <<OneTimeExpense(2, 1, Rat(7)), OneTimeExpense(1, 1, Rat(3))>> }

\* Constant inflation of 0 and of 1200 percent a year (1 a month).
ConstantInflations ==
    { InflationSettings(Zero, Zero, Zero, "constant"),
      InflationSettings(Zero, Rat(1200), Rat(1200), "constant") }

ScheduleConfigs ==
    { [SimConfig(1, Zero, periods, otes,
           <<InvestmentBucket("Cash", "USD", Rat(1), Rat(20), "constant", Zero, Zero,
                 RebalancingParams("monthly", None, Zero, 0, Zero))>>, <<>>)
          EXCEPT !.inflation = infl] :
        periods \in PeriodSchedules, otes \in OneTimeLists, infl \in ConstantInflations }

\* Stochastic inflation: 0 to 0.6 percent a year around 0.3, or pinned to 0.
MildInflations ==
    { InflationSettings(Zero, Q(3, 10), Q(6, 10), "mild"),
      InflationSettings(Zero, Zero, Zero, "mild") }

\* Stochastic FX: within one percent of 1, or with an average price of 0.
WalkingCurrencies ==
    { [CurrencySettings("EUR", One) EXCEPT
          !.volatility = "sp500", !.min_price = Q(99, 100), !.max_price = Q(101, 100)],
      [CurrencySettings("EUR", Zero) EXCEPT !.volatility = "sp500"] }

\* Buckets: a random walk without drift from 10 and from the price floor,
\* and a constant bucket losing everything (growth of -100 percent).
WalkingBuckets ==
    { [InvestmentBucket("Stock", "USD", p0, Rat(20), "sp500", Zero, Zero,
           RebalancingParams("monthly", None, Zero, 0, Zero))
          EXCEPT !.growth_min_pct = Zero, !.growth_max_pct = Zero] :
        p0 \in {Rat(10), Q(1, 1000)} }
    \cup
    { [InvestmentBucket("Stock", "USD", Rat(10), Rat(20), "constant", Zero, Zero,
           RebalancingParams("monthly", None, Zero, 0, Zero))
          EXCEPT !.growth_min_pct = Rat(-100), !.growth_avg_pct = Rat(-100),
                 !.growth_max_pct = Rat(-100)] }

\* Recurring expenses drawn around 100 within [95, 105], or none.
DrawnSchedules ==
    { <<>>, <<ExpensePeriod(1, 1, Rat(95), Rat(100), Rat(105), "moderate")>> }

StochasticConfigs ==
    { cfg \in
        { [SimConfig(1, Zero, periods, <<>>, <<bucket>>, <<cs>>)
              EXCEPT !.inflation = infl] :
            periods \in DrawnSchedules, bucket \in WalkingBuckets,
            cs \in WalkingCurrencies, infl \in MildInflations } :
        cfg.expense_periods = <<>> \/ cfg.inflation.max_pct = Zero }

\* Two walking currencies and two walking buckets, everything drawn.
TwoByTwoConfig ==
    [SimConfig(1, Zero,
         <<ExpensePeriod(1, 1, Rat(95), Rat(100), Rat(105), "moderate")>>, <<>>,
         <<[InvestmentBucket("Stock", "EUR", Rat(10), Rat(20), "sp500", Zero, Zero,
                RebalancingParams("monthly", None, Zero, 1, Zero))
               EXCEPT !.growth_min_pct = Zero, !.growth_max_pct = Zero],
           [InvestmentBucket("Coin", "GBP", Rat(10), Rat(20), "bitcoin", Zero, Zero,
                RebalancingParams("monthly", None, Zero, 0, Zero))
               EXCEPT !.growth_min_pct = Zero, !.growth_max_pct = Zero]>>,
         <<[CurrencySettings("EUR", One) EXCEPT !.volatility = "sp500",
                !.min_price = Q(99, 100), !.max_price = Q(101, 100)],
           [CurrencySettings("GBP", One) EXCEPT !.volatility = "bitcoin",
                !.min_price = Q(99, 100), !.max_price = Q(101, 100)]>>)
        EXCEPT !.inflation = InflationSettings(Zero, Zero, Zero, "mild")]

RunConfigs == {E2EConfig, TwoByTwoConfig} \cup ScheduleConfigs \cup StochasticConfigs

\* The streams of standard normal values of the generators tried.
Rngs ==
    { [draws |-> d, pos |-> 0] : d \in { <<0>>, <<3, 0, 0, -3, 0, 0>>, <<-3, 3, 0>> } }

InitRun ==
    /\ config \in RunConfigs
    /\ rng \in Rngs
    /\ rng_draws = <<>>
    /\ gen = 0
    /\ prices = <<>>
    /\ pc = "inflation"
    /\ TrialIdle
    /\ McIdle
    /\ GuiIdle

NextRun ==
    \/ GenInflation
    \/ GenFx
    \/ GenBucketPrices
    \/ GenExpenses
    \/ OneTimeVisit
    \/ InitBucketStates
    \/ TrialStep

SpecRun == InitRun /\ [][NextRun]_vars

(***************************************************************************)
(* run_monte_carlo (montecarlo.py lines 24-86).                            *)
(***************************************************************************)
\* line 53: the tolerance of the success test.
Tolerance == Q(1, 100)

\* The success test without the tolerance.
IsSuccess_NoTolerance(df) ==
    \A t \in 1..Len(df) : RLe(RSub(df[t].expenses, df[t].total_net_spent), Zero)

\* lines 52-53: the trial covers its expenses in every month.
IsSuccess(df) ==
    \A t \in 1..Len(df) :
        RLe(RSub(df[t].expenses, df[t].total_net_spent), Tolerance)

\* np.percentile(values, pct) with linear interpolation.
RECURSIVE Insert(_, _)
Insert(x, s) ==
    IF s = <<>> THEN <<x>>
    ELSE IF RLe(x, s[1]) THEN <<x>> \o s
    ELSE <<s[1]>> \o Insert(x, Tail(s))

RECURSIVE SortValues(_)
SortValues(s) == IF s = <<>> THEN <<>> ELSE Insert(s[1], SortValues(Tail(s)))
\* The percentile interpolated over the values in collection order.
Percentile_Unsorted(values, pct) ==
    LET n == Len(values)
        pos == RMul(Q(pct, 100), Rat(n - 1))
        lo == pos[1] \div pos[2]
        hi == IF lo + 1 <= n - 1 THEN lo + 1 ELSE lo
        g == RSub(pos, Rat(lo))
    IN  RAdd(values[lo + 1], RMul(g, RSub(values[hi + 1], values[lo + 1])))

Percentile(values, pct) ==
    LET n == Len(values)
        sorted == SortValues(values)
        pos == RMul(Q(pct, 100), Rat(n - 1))
        lo == pos[1] \div pos[2]
        hi == IF lo + 1 <= n - 1 THEN lo + 1 ELSE lo
        g == RSub(pos, Rat(lo))
    IN  RAdd(sorted[lo + 1], RMul(g, RSub(sorted[hi + 1], sorted[lo + 1])))

\* lines 64-77: the percentile table over the collected frames.
_percentile_frame(frames, pct) ==
    LET template == frames[1]
    IN  [t \in 1..Len(template) |->
            [year |-> template[t].year,
             month |-> template[t].month,
             total_net_spent |->
                 Percentile([s \in 1..Len(frames) |-> frames[s][t].total_net_spent], pct),
             expenses |->
                 Percentile([s \in 1..Len(frames) |-> frames[s][t].expenses], pct),
             amount_exp |-> [j \in 1..Len(template[t].buckets) |->
                 Percentile([s \in 1..Len(frames) |-> frames[s][t].buckets[j].amount_exp],
                            pct)]]]

\* lines 79-86
MonteCarloResult(n, count, frames) ==
    [n_simulations |-> n,
     success_count |-> count,
     success_rate |-> IF n > 0 THEN Q(count, n) ELSE Zero,
     percentile_10 |-> _percentile_frame(frames, 10),
     percentile_50 |-> _percentile_frame(frames, 50),
     percentile_90 |-> _percentile_frame(frames, 90)]

\* lines 41-46: next iteration, the child generator is seeded and
\* run_simulation is entered.
McStartTrial ==
    /\ mc_pc = "loop"
    /\ sim < n_simulations
    /\ pc = "idle"
    /\ pc' = "start"
    /\ mc_pc' = "trial"
    /\ UNCHANGED <<guiVars, config, genVars, inflation_rates, fx_price_series, bucket_price_series,
                   expenses, bucket_states, m, rows, i, k, remaining_expense,
                   total_covered, n_simulations, progress_callback, sim, all_frames,
                   success_count, calls, result, exception, rejected>>

\* lines 46-54: run_simulation has returned, the table is collected and
\* the success counted.
McRecord ==
    /\ mc_pc = "trial"
    /\ pc = "done"
    /\ all_frames' = Append(all_frames, rows)
    /\ success_count' = IF IsSuccess(rows) THEN success_count + 1 ELSE success_count
    /\ pc' = "idle"
    /\ mc_pc' = "recorded"
    /\ UNCHANGED <<guiVars, config, genVars, inflation_rates, fx_price_series, bucket_price_series,
                   expenses, bucket_states, m, rows, i, k, remaining_expense,
                   total_covered, n_simulations, progress_callback, sim, calls,
                   result, exception, rejected>>
\* The callback called with the 0-based loop index.
CallbackArgs_LoopIndex(it, n) == <<it, n>>

\* The arguments of the progress callback in iteration number it (0-based).
CallbackArgs(it, n) == <<it + 1, n>>

\* lines 56-57: the progress callback, end of the iteration.
McProgress ==
    /\ mc_pc = "recorded"
    /\ calls' = IF progress_callback
                THEN Append(calls, CallbackArgs(sim, n_simulations)) ELSE calls
    /\ sim' = sim + 1
    /\ mc_pc' = "loop"
    /\ UNCHANGED <<guiVars, config, genVars, trialVars, n_simulations, progress_callback, all_frames,
                   success_count, result, exception, rejected>>

\* lines 59-86 with a collected frame: the result is returned.
McReturn ==
    /\ mc_pc = "loop"
    /\ sim >= n_simulations
    /\ all_frames # <<>>
    /\ result' = <<MonteCarloResult(n_simulations, success_count, all_frames)>>
    /\ mc_pc' = "returned"
    /\ UNCHANGED <<guiVars, config, genVars, trialVars, n_simulations, progress_callback, sim,
                   all_frames, success_count, calls, exception, rejected>>

\* line 64 with no frame collected: all_frames[0] raises IndexError.
McRaise ==
    /\ mc_pc = "loop"
    /\ sim >= n_simulations
    /\ all_frames = <<>>
    /\ exception' = "IndexError"
    /\ mc_pc' = "raised"
    /\ UNCHANGED <<guiVars, config, genVars, trialVars, n_simulations, progress_callback, sim,
                   all_frames, success_count, calls, result, rejected>>

\* montecarlo_dialog.py lines 74-75: the Close button rejects the dialog
\* while the MonteCarloThread is running a trial.
DialogReject ==
    /\ mc_pc = "trial"
    /\ ~rejected
    /\ rejected' = TRUE
    /\ UNCHANGED <<guiVars, config, genVars, trialVars, n_simulations, progress_callback, sim,
                   all_frames, success_count, calls, mc_pc, result, exception>>

(***************************************************************************)
(* A Monte Carlo batch: run_monte_carlo called with a configuration.       *)
(***************************************************************************)
McBuckets ==
    { InvestmentBucket("Cash", "USD", Rat(1), amount, "constant", fee, Zero,
          RebalancingParams("monthly", None, Zero, 0, Zero)) :
        amount \in {Rat(14), Rat(30)}, fee \in {Zero, One} }

McConfigs ==
    { SimConfig(1, Zero, <<ExpensePeriod(1, 1, One, One, Rat(2), "moderate")>>, <<>>,
                <<cash>>, <<>>) : cash \in McBuckets }

InitMC ==
    /\ config \in McConfigs
    /\ pc = "idle"
    /\ TrialIdle
    /\ n_simulations \in 0..MaxSims
    /\ progress_callback \in BOOLEAN
    /\ sim = 0
    /\ all_frames = <<>>
    /\ success_count = 0
    /\ calls = <<>>
    /\ mc_pc = "loop"
    /\ result = <<>>
    /\ exception = None
    /\ rejected = FALSE
    /\ GenIdle
    /\ GuiIdle

NextMC ==
    \/ McStartTrial
    \/ RunSimulationStart
    \/ TrialStep
    \/ McRecord
    \/ McProgress
    \/ McReturn
    \/ McRaise
    \/ DialogReject

SpecMC == InitMC /\ [][NextMC]_vars

(***************************************************************************)
(* The main window and its SimulationThread (gui/main_window.py).  The     *)
(* thread holds a reference to a SimConfig and reads it month by month;    *)
(* the handlers of the main window run on the GUI thread between any two   *)
(* steps of the simulation.  Of the widgets only the tax spin box is       *)
(* edited: every other widget holds the value read from the configuration  *)
(* and writes it back unchanged.                                           *)
(***************************************************************************)
\* Values the user gives the tax spin box.
TaxValues == {Zero, Rat(50)}

\* Configurations of the main window: one growth bucket with a standby
\* bucket, and a configuration whose buckets were all removed.
GuiConfigs ==
    { SimConfig(1, tax, LateExpenses, <<>>, bucketSeq,
          <<ConstantCurrency("EUR", Rat(2)), ConstantCurrency("GBP", Q(1, 2))>>) :
        tax \in TaxValues,
        bucketSeq \in
          { <<>>,
            <<InvestmentBucket("Stock", "EUR", Rat(10), Rat(10), "sp500", Zero, Rat(50),
                  RebalancingParams("monthly", "Cash", Zero, 1, Zero)),
              InvestmentBucket("Cash", "USD", Rat(1), Rat(20), "constant", Zero, Rat(10),
                  RebalancingParams("monthly", None, Zero, 0, Zero))>> } }

\* global_panel.py lines 101-111: the widgets' values assigned to the
\* fields of the object given.
write_to_config(cfg) == [cfg EXCEPT !.capital_gain_tax_pct = _tax]

\* main_window.py lines 146-152: the panels write into self._config, the
\* object itself is returned.  A thread holding that object sees the writes.
_collect_config ==
    /\ _config' = write_to_config(_config)
    /\ config' = IF thread_shares_config THEN write_to_config(_config) ELSE config

\* main_window.py lines 188-204: TRUE iff an error message is returned.
_validate_config(cfg) ==
    \/ cfg.period_years < 1
    \/ cfg.buckets = <<>>
    \/ \E j \in 1..Len(cfg.buckets) :
          \/ cfg.buckets[j].name = ""
          \/ RLt(cfg.buckets[j].growth_max_pct, cfg.buckets[j].growth_min_pct)
    \/ RLt(cfg.inflation.max_pct, cfg.inflation.min_pct)
    \/ \E j \in 1..Len(cfg.expense_periods) :
          RLt(cfg.expense_periods[j].amount_max, cfg.expense_periods[j].amount_min)

\* The handlers of the main window run while it is open and no modal
\* dialog blocks its input.
WindowActive == ~closed /\ ~mc_dialog

\* global_panel.py lines 79-83, main_window.py lines 101, 161-162: the user
\* changes the tax spin box, valueChanged marks the window dirty.
EditTax ==
    /\ WindowActive
    /\ \E v \in TaxValues \ {_tax} : _tax' = v
    /\ _dirty' = TRUE
    /\ UNCHANGED <<config, _config, thread_shares_config, _act_run, _sim_thread,
                   mc_dialog, closed, trialVars, mcVars, genVars>>

\* main_window.py lines 208-219, 26-32: Run Simulation.
_on_run_simulation ==
    /\ WindowActive
    /\ _act_run
    /\ _config' = write_to_config(_config)
    /\ IF _validate_config(write_to_config(_config))
       THEN /\ config' = IF thread_shares_config THEN write_to_config(_config)
                         ELSE config
            /\ UNCHANGED <<thread_shares_config, _act_run, _sim_thread, pc>>
       ELSE /\ _act_run' = FALSE
            /\ config' = write_to_config(_config)
            /\ thread_shares_config' = TRUE
            /\ _sim_thread' = "running"
            /\ pc' = "start"
    /\ UNCHANGED <<_tax, _dirty, mc_dialog, closed, mcVars, genVars,
                   inflation_rates, fx_price_series, bucket_price_series, expenses,
                   bucket_states, m, rows, i, k, remaining_expense, total_covered>>

\* main_window.py lines 34-37: run_simulation has returned, the thread
\* emits finished.
ThreadFinished ==
    /\ _sim_thread = "running"
    /\ pc = "done"
    /\ pc' = "idle"
    /\ _sim_thread' = "finished"
    /\ UNCHANGED <<config, _config, thread_shares_config, _tax, _act_run, _dirty,
                   mc_dialog, closed, mcVars, genVars,
                   inflation_rates, fx_price_series, bucket_price_series, expenses,
                   bucket_states, m, rows, i, k, remaining_expense, total_covered>>

\* main_window.py lines 221-227: the slot of finished, run by the event
\* loop of the GUI thread (a modal dialog runs that loop too).
_on_simulation_done ==
    /\ ~closed
    /\ _sim_thread = "finished"
    /\ _act_run' = TRUE
    /\ _sim_thread' = "none"
    /\ UNCHANGED <<config, _config, thread_shares_config, _tax, _dirty, mc_dialog,
                   closed, trialVars, mcVars, genVars>>

\* main_window.py lines 239-249: Save Config; the file dialog returns a
\* path or is cancelled.
_on_save_config ==
    /\ WindowActive
    /\ _collect_config
    /\ \E path \in BOOLEAN : _dirty' = IF path THEN FALSE ELSE _dirty
    /\ UNCHANGED <<thread_shares_config, _tax, _act_run, _sim_thread, mc_dialog,
                   closed, trialVars, mcVars, genVars>>

\* main_window.py lines 251-262: Load Config with a path chosen; _config
\* names a new object, the panels show its values.
_on_load_config ==
    /\ WindowActive
    /\ \E loaded \in GuiConfigs :
          /\ _config' = loaded
          /\ _tax' = loaded.capital_gain_tax_pct
    /\ thread_shares_config' = FALSE
    /\ _dirty' = FALSE
    /\ UNCHANGED <<config, _act_run, _sim_thread, mc_dialog, closed,
                   trialVars, mcVars, genVars>>

\* main_window.py lines 229-237: Run Monte Carlo opens a new modal dialog
\* unless the validation fails.
_on_run_monte_carlo ==
    /\ WindowActive
    /\ _collect_config
    /\ mc_dialog' = ~_validate_config(write_to_config(_config))
    /\ rejected' = (rejected /\ _validate_config(write_to_config(_config)))
    /\ UNCHANGED <<thread_shares_config, _tax, _act_run, _sim_thread, _dirty,
                   closed, trialVars, genVars, n_simulations, progress_callback, sim,
                   all_frames, success_count, calls, mc_pc, result, exception>>

\* montecarlo_dialog.py lines 74-75: the Close button rejects the dialog,
\* exec() returns.
DialogClose ==
    /\ mc_dialog
    /\ mc_dialog' = FALSE
    /\ rejected' = TRUE
    /\ UNCHANGED <<config, _config, thread_shares_config, _tax, _act_run,
                   _sim_thread, _dirty, closed, trialVars, genVars, n_simulations,
                   progress_callback, sim, all_frames, success_count, calls, mc_pc,
                   result, exception>>

\* main_window.py lines 277-295, 166-172: the window is asked to close;
\* the autosave collects the configuration, and a dirty window asks
\* whether to save ("save", with the file dialog's outcome), discard or
\* cancel.
closeEvent ==
    /\ WindowActive
    /\ _collect_config
    /\ IF _dirty
       THEN \E reply \in {"save", "discard", "cancel"} :
               /\ closed' = (reply # "cancel")
               /\ \E path \in BOOLEAN :
                     _dirty' = IF reply = "save" /\ path THEN FALSE ELSE _dirty
       ELSE closed' = TRUE /\ _dirty' = _dirty
    /\ UNCHANGED <<thread_shares_config, _tax, _act_run, _sim_thread, mc_dialog,
                   trialVars, mcVars, genVars>>

\* main_window.py lines 44-60: the window after construction.
InitGui ==
    /\ _config \in GuiConfigs
    /\ config = _config
    /\ thread_shares_config = FALSE
    /\ _tax = _config.capital_gain_tax_pct
    /\ _act_run = TRUE
    /\ _sim_thread = "none"
    /\ _dirty = FALSE
    /\ mc_dialog = FALSE
    /\ closed = FALSE
    /\ pc = "idle"
    /\ TrialIdle
    /\ McIdle
    /\ GenIdle

NextGui ==
    \/ EditTax
    \/ _on_run_simulation
    \/ RunSimulationStart
    \/ TrialStep
    \/ ThreadFinished
    \/ _on_simulation_done
    \/ _on_save_config
    \/ _on_load_config
    \/ _on_run_monte_carlo
    \/ DialogClose
    \/ closeEvent

SpecGui == InitGui /\ [][NextGui]_vars

(***************************************************************************)
(* Properties.                                                             *)
(***************************************************************************)
\* FX rate of bucket number j in the current month.
FxOf(j) == get_fx_rate(bucket_states[j].currency, config.expenses_currency, CurrentFx(m))

\* Value of bucket number j of the states bs in expenses currency.
ValueOf(bs, j) == RMul(bs[j].amount, FxOf(j))

\* C1: in every reachable state of a trial every bucket's holding amount is
\* >= 0, after the Step-1 skim and after the Step-2 cascade.
C1_HoldingNeverNegative ==
    \A j \in 1..Len(bucket_states) : RLe(Zero, bucket_states[j].amount)

\* C2: a step of the Step-2 cascade never takes a bucket's value in expenses
\* currency below cash_floor_months * month_expense: a value at or above the
\* floor stays at or above it, and a bucket below the floor is not sold from.
C2_CashFloorKept ==
    [][pc = "phase2" =>
        \A j \in 1..NBuckets :
            LET floor == RMul(bucket_states[j].cash_floor_months, expenses[m + 1])
            IN  /\ RLe(floor, ValueOf(bucket_states, j))
                       => RLe(floor, ValueOf(bucket_states', j))
                /\ RLt(ValueOf(bucket_states, j), floor)
                       => bucket_states'[j] = bucket_states[j]]_vars

\* C2 witness: the cascade has visited every bucket, a bucket with a cash
\* floor was sold down exactly to its floor and expense remains uncovered.
C2_Witness ==
    /\ pc = "phase2"
    /\ k > NBuckets
    /\ RLt(Zero, remaining_expense)
    /\ \E j \in 1..NBuckets :
          /\ RLt(Zero, bucket_states[j].cash_floor_months)
          /\ RLt(Zero, bucket_states[j].net_spent)
          /\ ValueOf(bucket_states, j) =
                 RMul(bucket_states[j].cash_floor_months, expenses[m + 1])

\* The portfolio-wide runway is below the required months of bucket number j:
\* the expense is positive and total value < required * expense.
RunwayBelow(bs, j) ==
    /\ RLt(Zero, expenses[m + 1])
    /\ RLt(RSum([l \in 1..Len(bs) |-> ValueOf(bs, l)]),
           RMul(bs[j].required_runaway_months, expenses[m + 1]))

\* C3: the Step-1 visit of a bucket whose portfolio-wide runway is below its
\* required_runaway_months sells nothing, whatever its sell trigger; the
\* cascade still starts with the whole expense of the month.
C3_LowRunwayNoSkim ==
    [][/\ (pc = "phase1" /\ i <= NBuckets /\ RunwayBelow(bucket_states, i))
           => bucket_states' = bucket_states
       /\ (pc = "phase1" /\ pc' = "phase2")
           => (remaining_expense' = expenses[m + 1] /\ k' = 1)]_vars

\* C3 witness: the first bucket has been visited in Step 1 with its sell
\* trigger firing, its price above the target trajectory and the runway
\* below its requirement, and nothing was sold.
C3_Witness ==
    /\ pc = "phase1"
    /\ i = 2
    /\ check_sell_trigger(bucket_states[1])
    /\ RLt(TargetPrice(bucket_states[1]), bucket_states[1].price)
    /\ RLt(Zero, bucket_states[1].amount)
    /\ RunwayBelow(bucket_states, 1)
    /\ bucket_states[1].amount_sold = Zero

\* C4: a bucket with target_growth_pct = 0 never fires its sell trigger and
\* its Step-1 visit leaves its holding and its sold amount unchanged.
C4_ZeroTargetNeverSells ==
    [][(pc = "phase1" /\ i <= NBuckets /\ bucket_states[i].target_growth_pct = Zero)
        => /\ ~check_sell_trigger(bucket_states[i])
           /\ bucket_states'[i].amount = bucket_states[i].amount
           /\ bucket_states'[i].amount_sold = bucket_states[i].amount_sold]_vars

\* C4 witness: a bucket with target growth 0 priced above its initial price
\* has been visited in Step 1 and holds all of its amount.
C4_Witness ==
    /\ pc = "phase1"
    /\ i = 2
    /\ bucket_states[1].target_growth_pct = Zero
    /\ RLt(bucket_states[1].initial_price, bucket_states[1].price)
    /\ RLt(Zero, bucket_states[1].amount)
    /\ bucket_states[1].amount_sold = Zero

\* A collected table covers its expenses in every month.
Covered(df) ==
    \A t \in 1..Len(df) : RLe(RSub(df[t].expenses, Q(1, 100)), df[t].total_net_spent)

\* C6: success_count is the number of collected trials that cover their
\* expenses (within 0.01) in every month, 0 <= success_count <= n_simulations,
\* and the returned success_rate is success_count / n_simulations, 1 exactly
\* when every trial is covered.
C6_SuccessCounted ==
    /\ success_count = Cardinality({t \in 1..Len(all_frames) : Covered(all_frames[t])})
    /\ 0 <= success_count
    /\ success_count <= n_simulations
    /\ mc_pc = "returned" =>
          /\ result[1].success_count = success_count
          /\ RMul(result[1].success_rate, Rat(n_simulations)) = Rat(success_count)
          /\ (result[1].success_rate = One)
                 <=> (\A t \in 1..n_simulations : Covered(all_frames[t]))

\* C6 witness: a returned batch with successful and failed trials, one of the
\* successful ones with a month paid short within the tolerance.
C6_Witness ==
    /\ mc_pc = "returned"
    /\ 0 < success_count
    /\ success_count < n_simulations
    /\ \E t \in 1..Len(all_frames) :
          /\ Covered(all_frames[t])
          /\ \E r \in 1..Len(all_frames[t]) :
                RLt(all_frames[t][r].total_net_spent, all_frames[t][r].expenses)

\* C7: run_monte_carlo with n_simulations = 0 ends with an explicit error
\* (a ValueError raised for the argument), not a result.
C7_ZeroTrialsExplicitError ==
    (n_simulations = 0 /\ mc_pc \in {"raised", "returned"})
        => (mc_pc = "raised" /\ exception = "ValueError")

\* C8: the progress callback is called once per completed and recorded
\* trial, with (1, n), (2, n), ... in this order, n times by the return.
C8_ProgressCalls ==
    /\ ~progress_callback => calls = <<>>
    /\ progress_callback =>
          /\ Len(calls) = sim
          /\ \A j \in 1..Len(calls) : calls[j] = <<j, n_simulations>>
          /\ Len(all_frames) = (IF mc_pc = "recorded" THEN sim + 1 ELSE sim)
          /\ mc_pc = "returned" => Len(calls) = n_simulations

\* C8 witness: a batch of several trials has returned after the callback
\* reported every one of them.
C8_Witness ==
    /\ mc_pc = "returned"
    /\ progress_callback
    /\ n_simulations >= 2
    /\ Len(calls) = n_simulations
    /\ calls[n_simulations] = <<n_simulations, n_simulations>>

\* C9: once cancellation is requested while a trial runs (the dialog is
\* rejected) no further trial is started.
C9_CancelStopsBatch ==
    [][rejected => ~(mc_pc = "loop" /\ mc_pc' = "trial")]_vars

\* The frames collected in the order perm.
Permuted(frames, perm) == [t \in 1..Len(frames) |-> frames[perm[t]]]

RECURSIVE SuccessCountOf(_)
SuccessCountOf(frames) ==
    IF frames = <<>> THEN 0
    ELSE (IF Covered(Head(frames)) THEN 1 ELSE 0) + SuccessCountOf(Tail(frames))

\* C10: the success count and the three percentile tables of a returned
\* batch are the same for every order in which the same tables are collected.
C10_OrderInvariant ==
    mc_pc = "returned" =>
        \A perm \in Permutations(1..Len(all_frames)) :
            LET frames == Permuted(all_frames, perm)
            IN  /\ SuccessCountOf(frames) = result[1].success_count
                /\ _percentile_frame(frames, 10) = result[1].percentile_10
                /\ _percentile_frame(frames, 50) = result[1].percentile_50
                /\ _percentile_frame(frames, 90) = result[1].percentile_90

\* C10 witness: a returned batch whose trials produced different tables, so
\* that the percentile tables differ.
C10_Witness ==
    /\ mc_pc = "returned"
    /\ Len(all_frames) >= 3
    /\ all_frames[1] # all_frames[2]
    /\ all_frames[2] # all_frames[3]
    /\ all_frames[1] # all_frames[3]
    /\ result[1].percentile_10 # result[1].percentile_90
    /\ result[1].percentile_10 # result[1].percentile_50

\* The row appended last.
LastRow == rows[Len(rows)]

\* C12: when the cascade ends execute_rebalance returns normally with
\* total_covered = month_expense - max(0, remaining), remaining being the
\* expense the month's net spending has not paid; a shortfall shows as
\* total_covered < month_expense and as total_net_spent < expenses in the row.
C12_ShortfallIsData ==
    [][(pc = "phase2" /\ pc' # "phase2") =>
          LET row == rows'[Len(rows')]
              unpaid == RSub(row.expenses, row.total_net_spent)
          IN  /\ Len(rows') = Len(rows) + 1
              /\ row.expenses = expenses[m + 1]
              /\ total_covered' = RSub(row.expenses, RMax(Zero, unpaid))
              /\ RLt(total_covered', row.expenses)
                     <=> RLt(row.total_net_spent, row.expenses)
              /\ pc' \in {"month", "done"}
              /\ exception' = None]_vars

\* C12 witness: a month has ended after the cascade visited every bucket
\* with expense left unpaid, and the trial went on to the next month.
C12_Witness ==
    /\ pc = "month"
    /\ Len(rows) >= 1
    /\ k > NBuckets
    /\ RLt(Zero, remaining_expense)
    /\ RLt(Zero, total_covered)
    /\ RLt(total_covered, LastRow.expenses)
    /\ LastRow.total_net_spent = total_covered

\* The expense of every month of the trial is 0.
NoExpenses ==
    /\ expenses # <<>>
    /\ \A t \in 1..Len(expenses) : expenses[t] = Zero

\* The ratio test of the sell trigger for a bucket of initial price p0 and
\* target growth tg at price p: tg is not 0 and the growth in percent
\* divided by tg exceeds the trigger.
SellTriggerRatio(p0, p, tg, trigger) ==
    /\ tg # Zero
    /\ RLt(trigger, RDiv(RMul(RDiv(RSub(p, p0), p0), Hundred), tg))

AmountBefore(t, j) ==
    IF t = 1 THEN config.buckets[j].initial_amount ELSE rows[t - 1].buckets[j].amount

\* C18: when the Step-1 loop starts the five monthly counters of every
\* bucket are zero, and the sold and bought amounts of every row are the
\* month's own: they account for the change of the holding in that month.
C18_CountersPerMonth ==
    /\ (pc = "phase1" /\ i = 1) =>
          \A j \in 1..NBuckets :
              /\ bucket_states[j].amount_sold = Zero
              /\ bucket_states[j].amount_bought = Zero
              /\ bucket_states[j].fees_paid = Zero
              /\ bucket_states[j].tax_paid = Zero
              /\ bucket_states[j].net_spent = Zero
    /\ \A t \in 1..Len(rows) :
          /\ rows[t].total_net_spent =
                 RSum([j \in 1..NBuckets |-> rows[t].buckets[j].net_spent])
          /\ \A j \in 1..NBuckets :
                rows[t].buckets[j].amount =
                    RAdd(RSub(AmountBefore(t, j), rows[t].buckets[j].sold),
                         rows[t].buckets[j].bought)

\* C18 witness: the Step-1 loop of a later month starts with zeroed
\* counters after a month in which a bucket sold, paid fees and tax.
C18_Witness ==
    /\ pc = "phase1"
    /\ i = 1
    /\ m >= 1
    /\ \E j \in 1..NBuckets :
          /\ RLt(Zero, rows[m].buckets[j].sold)
          /\ RLt(Zero, rows[m].buckets[j].fees)
          /\ RLt(Zero, rows[m].buckets[j].tax)
          /\ RLt(Zero, rows[m].buckets[j].net_spent)
          /\ bucket_states[j].amount_sold = Zero

\* The bucket visited next by the Step-1 loop.
Visited == bucket_states[i]

\* C19 as claimed: the sell trigger of the visited bucket fires exactly when
\* growth / target_growth_pct > sell_trigger, and for target_growth_pct = 0
\* exactly when the price is above the initial price.
C19_ZeroTargetFiresOnGrowth ==
    (pc = "phase1" /\ i <= NBuckets) =>
        (check_sell_trigger(Visited) <=>
            IF Visited.target_growth_pct = Zero
            THEN RLt(Visited.initial_price, Visited.price)
            ELSE SellTriggerRatio(Visited.initial_price, Visited.price,
                                  Visited.target_growth_pct, Visited.sell_trigger))

\* C19 as amended: the sell trigger of the visited bucket fires exactly when
\* target_growth_pct is not 0 and growth / target_growth_pct > sell_trigger;
\* with target_growth_pct = 0 it never fires; a visit whose trigger does not
\* fire changes no bucket.
C19_TriggerIsRatio ==
    [][(pc = "phase1" /\ i <= NBuckets) =>
          LET fires == SellTriggerRatio(Visited.initial_price, Visited.price,
                                        Visited.target_growth_pct, Visited.sell_trigger)
          IN  /\ check_sell_trigger(Visited) <=> fires
              /\ Visited.target_growth_pct = Zero => ~fires
              /\ ~fires => bucket_states' = bucket_states]_vars

\* C19 witness: a bucket with a positive target growth whose price grew past
\* the trigger ratio has been visited and skimmed.
C19_Witness ==
    /\ pc = "phase1"
    /\ i = 2
    /\ RLt(Zero, bucket_states[1].target_growth_pct)
    /\ SellTriggerRatio(bucket_states[1].initial_price, bucket_states[1].price,
                        bucket_states[1].target_growth_pct, bucket_states[1].sell_trigger)
    /\ RLt(Zero, bucket_states[1].amount_sold)

\* Bucket number x comes before bucket number y in the cascade: lower
\* spending_priority, or the same and configured earlier.
SpendsBefore(x, y) ==
    \/ config.buckets[x].rebalancing.spending_priority
           < config.buckets[y].rebalancing.spending_priority
    \/ /\ config.buckets[x].rebalancing.spending_priority
              = config.buckets[y].rebalancing.spending_priority
       /\ x < y

\* C20: the visit number k of the cascade is of the bucket with exactly
\* k - 1 buckets before it in (spending_priority, configuration) order; a
\* cascade step changes no other bucket, and changes that one only if
\* expense remains after the k - 1 earlier visits.
C20_CascadeOrder ==
    [][(pc = "phase2" /\ bucket_states' # bucket_states) =>
          /\ k' = k + 1
          /\ RLt(Zero, remaining_expense)
          /\ \E j \in 1..NBuckets :
                /\ Cardinality({y \in 1..NBuckets : SpendsBefore(y, j)}) = k - 1
                /\ \A l \in 1..NBuckets : l # j => bucket_states'[l] = bucket_states[l]
                /\ RLt(bucket_states[j].amount_sold, bucket_states'[j].amount_sold)]_vars

\* C20 witness: the bucket configured second has the lower spending
\* priority, was sold from first and exhausted, and the bucket configured
\* first was sold from after it.
C20_Witness ==
    /\ pc = "phase2"
    /\ k = 3
    /\ SpendsBefore(2, 1)
    /\ bucket_states[2].amount = Zero
    /\ RLt(Zero, bucket_states[2].net_spent)
    /\ RLt(Zero, bucket_states[1].net_spent)

\* x is a number within [lo, hi].
InRange(x, lo, hi) == x # NaN /\ RLe(lo, x) /\ RLe(x, hi)

\* The FX settings of currency code c.
SettingsOf(c) ==
    config.currencies[CHOOSE j \in 1..Len(config.currencies) : config.currencies[j].code = c]

\* C16: every element of a generated series is in range: inflation within
\* [min_pct / 1200, max_pct / 1200], FX within [min_price, max_price], bucket
\* prices strictly positive.
C16_SeriesInRange ==
    /\ \A t \in 1..Len(inflation_rates) :
          InRange(inflation_rates[t], RDiv(config.inflation.min_pct, Rat(1200)),
                  RDiv(config.inflation.max_pct, Rat(1200)))
    /\ \A c \in DOMAIN fx_price_series : \A t \in 1..Len(fx_price_series[c]) :
          InRange(fx_price_series[c][t], SettingsOf(c).min_price, SettingsOf(c).max_price)
    /\ \A b \in DOMAIN bucket_price_series : \A t \in 1..Len(bucket_price_series[b]) :
          bucket_price_series[b][t] # NaN /\ RLt(Zero, bucket_price_series[b][t])

\* C11: for the configuration of one constant bucket of 50,000 at price 1
\* and 500 a month over 24 months, every row has expenses 500 and
\* total_net_spent 500, and the holding falls by 500 a month and stays >= 0.
C11_EndToEnd ==
    config = E2EConfig =>
        /\ \A t \in 1..Len(rows) :
              /\ rows[t].expenses = Rat(500)
              /\ rows[t].total_net_spent = Rat(500)
              /\ rows[t].buckets[1].sold = Rat(500)
              /\ rows[t].buckets[1].amount = Rat(50000 - 500 * t)
              /\ RLe(Zero, rows[t].buckets[1].amount)
        /\ pc = "done" => Len(rows) = 24

\* C11 witness: the trial of that configuration has ended with 24 rows and
\* 38,000 left.
C11_Witness ==
    /\ config = E2EConfig
    /\ pc = "done"
    /\ Len(rows) = 24
    /\ rows[24].buckets[1].amount = Rat(38000)
    /\ bucket_states[1].amount = Rat(38000)

\* Position of a draw in the order of the generators.
DrawRank(d) ==
    CASE d.by = "inflation" -> 1
      [] d.by = "fx" -> 2
      [] d.by = "bucket" -> 3
      [] d.by = "expenses" -> 4

\* The draws of the log are in order: inflation, FX series in configured
\* order, bucket series in configured order, expenses.
DrawsInOrder(log) ==
    \A a, b \in 1..Len(log) :
        a < b => \/ DrawRank(log[a]) < DrawRank(log[b])
                 \/ DrawRank(log[a]) = DrawRank(log[b]) /\ log[a].idx <= log[b].idx

\* C13: after every step the draws made so far are in the fixed order, each
\* draw took one value of the stream, and no step of the monthly loop draws.
C13_DrawOrder ==
    [][/\ DrawsInOrder(rng_draws')
       /\ rng'.pos = Len(rng_draws')
       /\ pc \in {"month", "phase1", "phase2", "done"} =>
             (rng' = rng /\ rng_draws' = rng_draws)]_vars

\* C13 witness: a trial has ended whose inflation, two FX series, two bucket
\* series and expenses all drew.
C13_Witness ==
    /\ pc = "done"
    /\ \A w \in { [by |-> "inflation", idx |-> 1], [by |-> "fx", idx |-> 1],
                  [by |-> "fx", idx |-> 2], [by |-> "bucket", idx |-> 1],
                  [by |-> "bucket", idx |-> 2], [by |-> "expenses", idx |-> 1] } :
          \E a \in 1..Len(rng_draws) : rng_draws[a] = w
    /\ Len(rng_draws) = 6 * n_months

\* Cumulative inflation factor of the month with 0-based index mi under a
\* constant inflation of avg_pct a year.
ConstantFactor(mi) ==
    RPow(RAdd(One, RDiv(config.inflation.avg_pct, Rat(1200))), mi + 1)

\* The configured periods that have started by the month with index mi.
StartedBy(mi) ==
    {j \in 1..Len(config.expense_periods) : StartIdx(config.expense_periods[j]) <= mi}

\* Of those, the one with the latest start (of equal starts, the later
\* configured).
LatestStarted(mi) ==
    CHOOSE j \in StartedBy(mi) :
        \A o \in StartedBy(mi) :
            LET so == StartIdx(config.expense_periods[o])
                sj == StartIdx(config.expense_periods[j])
            IN  so < sj \/ (so = sj /\ o <= j)

\* The months on which a one-time expense of the configuration falls.
OneTimeMonths ==
    {(config.one_time_expenses[j].year - 1) * MonthsPerYear
         + (config.one_time_expenses[j].month - 1) :
        j \in 1..Len(config.one_time_expenses)}

ConstantSchedule ==
    /\ config.inflation.volatility = "constant"
    /\ \A j \in 1..Len(config.expense_periods) :
          config.expense_periods[j].volatility = "constant"

\* C14: with constant periods and constant inflation the base expense of a
\* month is the amount_avg of the period with the latest start at or before
\* it (times the inflation factor, 1 for zero inflation), a later period
\* overriding an earlier one; a month before every period has base 0, and
\* expense 0 in the finished series unless a one-time expense falls on it.
C14_PeriodAssignment ==
    ConstantSchedule =>
        /\ (pc = "onetime" /\ gen = 1) =>
              \A t \in 1..n_months :
                  expenses[t] =
                      IF StartedBy(t - 1) = {} THEN Zero
                      ELSE RMul(config.expense_periods[LatestStarted(t - 1)].amount_avg,
                                ConstantFactor(t - 1))
        /\ pc \in {"states", "month", "phase1", "phase2", "done"} =>
              \A t \in 1..n_months :
                  (StartedBy(t - 1) = {} /\ (t - 1) \notin OneTimeMonths) =>
                      expenses[t] = Zero

\* C14 witness: two periods configured out of order, zero inflation: the
\* months before the first are 0, then 5, then 40 from the second on.
C14_Witness ==
    /\ pc = "onetime" /\ gen = 1
    /\ config.inflation.avg_pct = Zero
    /\ Len(config.expense_periods) = 2
    /\ StartIdx(config.expense_periods[1]) = 5
    /\ StartIdx(config.expense_periods[2]) = 2
    /\ expenses[2] = Zero
    /\ expenses[3] = Rat(5)
    /\ expenses[5] = Rat(5)
    /\ expenses[6] = Rat(40)
    /\ expenses[12] = Rat(40)

\* C15: one iteration of the one-time loop adds amount * F to the expense of
\* the month the one-time expense falls on, F the cumulative inflation factor
\* of that month, and changes no other month; past the horizon it changes
\* nothing.
C15_OneTimeAddsAtIndex ==
    [][(pc = "onetime" /\ gen <= Len(config.one_time_expenses)
            /\ config.inflation.volatility = "constant") =>
          LET ote == config.one_time_expenses[gen]
              at == (ote.year - 1) * MonthsPerYear + (ote.month - 1)
          IN  /\ Len(expenses') = Len(expenses)
              /\ \A t \in 1..n_months :
                    expenses'[t] =
                        IF t = at + 1
                        THEN RAdd(expenses[t], RMul(ote.amount, ConstantFactor(at)))
                        ELSE expenses[t]]_vars

\* C15 witness: two one-time expenses, 7 and 3, on the fourth month of a
\* period of 5 a month under a monthly inflation of 1, factor 16: 240.
C15_Witness ==
    /\ pc = "onetime" /\ gen = 3
    /\ config.inflation.avg_pct = Rat(1200)
    /\ Len(config.expense_periods) = 1
    /\ StartIdx(config.expense_periods[1]) = 0
    /\ config.one_time_expenses = <<OneTimeExpense(1, 4, Rat(7)), OneTimeExpense(1, 4, Rat(3))>>
    /\ expenses[4] = Rat(240)
    /\ expenses[3] = Rat(40)

\* No configured target growth is negative.
TargetsNotNegative ==
    \A j \in 1..NBuckets : RLe(Zero, config.buckets[j].target_growth_pct)

\* C21: a visit of the Step-2 cascade leaves its bucket only when the
\* remaining expense is <= 0 or the bucket has nothing left above its cash
\* floor (or its FX rate is not positive, when it is skipped).
C21_CascadeExhaustsBucket ==
    [][(pc = "phase2" /\ k <= NBuckets /\ RLt(Zero, remaining_expense)
            /\ TargetsNotNegative) =>
          LET idx == SpendingOrder(bucket_states)[k]
              fx == get_fx_rate(bucket_states[idx].currency,
                                config.expenses_currency, CurrentFx(m))
          IN  \/ RLe(remaining_expense', Zero)
              \/ RLe(fx, Zero)
              \/ RLe(AvailableExpenses(bucket_states'[idx], fx, expenses[m + 1]), Zero)]_vars

\* C23: a Step-1 visit that sells from its bucket sells
\* holding * (price - target_price) / price, which leaves
\* holding * target_price / price, with 0 < sell_amount <= holding; a visit
\* of a bucket priced at or below its target price sells nothing.
C23_SkimIsExcessFraction ==
    [][(pc = "phase1" /\ i <= NBuckets) =>
          LET b == bucket_states[i]
              a == bucket_states'[i]
              target_price ==
                  RMul(b.initial_price, RAdd(One, RDiv(b.target_growth_pct, Hundred)))
              sell_amount == RSub(a.amount_sold, b.amount_sold)
          IN  /\ sell_amount # Zero =>
                    /\ sell_amount = RDiv(RMul(b.amount, RSub(b.price, target_price)), b.price)
                    /\ a.amount = RDiv(RMul(b.amount, target_price), b.price)
                    /\ RLt(Zero, sell_amount)
                    /\ RLe(sell_amount, b.amount)
              /\ RLe(b.price, target_price) =>
                    (a.amount_sold = b.amount_sold /\ a.amount = b.amount)]_vars

\* Every FX rate of the trial is positive.
AllFxPositive ==
    \A c \in DOMAIN fx_price_series :
        \A t \in 1..Len(fx_price_series[c]) : RLt(Zero, fx_price_series[c][t])

\* Sum of net_spent over the bucket states.
NetSpentSum == RSum([j \in 1..Len(bucket_states) |-> bucket_states[j].net_spent])

\* C27: with expenses >= 0, fee and tax within [0, 100] and positive FX
\* rates, the remaining expense is >= 0 after every visit of the cascade and
\* is the expense less the net spending so far; every row has
\* 0 <= total_net_spent <= expenses; the value execute_rebalance returned is
\* the row's total_net_spent.
C27_CascadeNeverOverpays ==
    (pc # "start" /\ AllFxPositive) =>
        /\ pc = "phase2" =>
              /\ RLe(Zero, remaining_expense)
              /\ RLe(Zero, NetSpentSum)
              /\ remaining_expense = RSub(expenses[m + 1], NetSpentSum)
        /\ \A t \in 1..Len(rows) :
              /\ RLe(Zero, rows[t].total_net_spent)
              /\ RLe(rows[t].total_net_spent, rows[t].expenses)
        /\ (pc \in {"month", "done"} /\ Len(rows) >= 1) =>
              total_covered = LastRow.total_net_spent

\* C27 witness: a month has ended in which a bucket paid fee and tax on its
\* sale and the net spending is positive and below the expense.
C27_Witness ==
    /\ pc = "month"
    /\ AllFxPositive
    /\ Len(rows) >= 1
    /\ \E j \in 1..NBuckets :
          /\ RLt(Zero, LastRow.buckets[j].fees)
          /\ RLt(Zero, LastRow.buckets[j].tax)
          /\ RLt(Zero, LastRow.buckets[j].net_spent)
    /\ RLt(LastRow.total_net_spent, LastRow.expenses)
    /\ total_covered = LastRow.total_net_spent

\* After-tax proceeds, in the bucket's currency, of selling sell_amount
\* from a bucket in state b.
AfterTaxOf(b, sell_amount) ==
    LET net == RSub(sell_amount, RDiv(RMul(sell_amount, b.buy_sell_fee_pct), Hundred))
        gain == RSub(net, RDiv(RMul(sell_amount, b.initial_price), b.price))
        tax == RMax(Zero, RDiv(RMul(gain, config.capital_gain_tax_pct), Hundred))
    IN  RSub(net, tax)

\* The bucket states named name.
Named(name) == {j \in 1..Len(bucket_states) : bucket_states[j].name = name}

\* The discount of a bucket's price below its target price exceeds its buy
\* trigger.
DiscountExceedsTrigger(b) ==
    /\ RLt(Zero, b.price)
    /\ RLt(b.buy_trigger,
           RSub(RDiv(RMul(Hundred, RMul(b.initial_price,
                                        RAdd(One, RDiv(b.target_growth_pct, Hundred)))),
                     b.price),
                Hundred))

\* A Step-1 visit that skims: with a standby bucket that is named, resolves
\* and whose buy trigger fires, the standby's holding grows by spend less
\* the buy fee, spend computed by Spend(after_tax, fx_seller, fx_standby);
\* in every other case no other holding changes.  No net_spent is credited.
SkimCredits(Spend(_, _, _)) ==
    (pc = "phase1" /\ i <= NBuckets
        /\ bucket_states'[i].amount_sold # bucket_states[i].amount_sold) =>
       LET b == bucket_states[i]
           after_tax == AfterTaxOf(b, RSub(bucket_states'[i].amount_sold, b.amount_sold))
           fx == get_fx_rate(b.currency, config.expenses_currency, CurrentFx(m))
           fires == /\ b.standby_bucket # None
                    /\ \E j \in Named(b.standby_bucket) :
                          DiscountExceedsTrigger(bucket_states[j])
       IN  /\ \A j \in 1..NBuckets :
                 bucket_states'[j].net_spent = bucket_states[j].net_spent
           /\ \A j \in 1..NBuckets \ {i} :
                 IF fires /\ j \in Named(b.standby_bucket)
                 THEN LET sb == bucket_states[j]
                          spend == Spend(after_tax, fx,
                                         get_fx_rate(sb.currency, config.expenses_currency,
                                                     CurrentFx(m)))
                      IN  bucket_states'[j].amount =
                              RAdd(sb.amount,
                                   RSub(spend, RDiv(RMul(spend, sb.buy_sell_fee_pct), Hundred)))
                 ELSE bucket_states'[j].amount = bucket_states[j].amount

SpendAsClaimed(after_tax, fx_seller, fx_standby) ==
    RDiv(RMul(after_tax, fx_seller), fx_standby)

SpendGuarded(after_tax, fx_seller, fx_standby) ==
    IF RLt(Zero, fx_standby) THEN RDiv(RMul(after_tax, fx_seller), fx_standby) ELSE Zero

\* C22 as claimed: the standby bucket whose buy trigger fires grows by
\* after_tax * FX_seller / FX_standby less its buy fee; otherwise the
\* proceeds are credited nowhere.
C22_StandbyCreditAsClaimed == [][SkimCredits(SpendAsClaimed)]_vars

\* C22 as amended: the same, the purchase being of after_tax * FX_seller /
\* FX_standby when the standby's FX rate is positive and of 0 when it is
\* zero or negative.
C22_StandbyCredit == [][SkimCredits(SpendGuarded)]_vars

\* C22 witness: a skim has just been credited, less a buy fee, to a standby
\* bucket held in another currency than the seller's.
C22_Witness ==
    /\ pc = "phase1" /\ i = 2
    /\ RLt(Zero, bucket_states[1].amount_sold)
    /\ bucket_states[1].standby_bucket = "Cash"
    /\ bucket_states[2].currency = "GBP"
    /\ RLt(Zero, bucket_states[2].amount_bought)
    /\ RLt(Zero, bucket_states[2].fees_paid)
    /\ bucket_states[2].amount = RAdd(Rat(20), bucket_states[2].amount_bought)

\* C24: in a month whose index is not a multiple of 12, no Step-1 visit
\* sells from a yearly bucket: its own visit changes nothing, and a visit of
\* another bucket changes it only by a standby purchase; a visit of the
\* Step-2 cascade sells from a yearly bucket in any month.
C24_YearlyFrequency ==
    [][/\ (pc = "phase1" /\ i <= NBuckets /\ m % MonthsPerYear # 0) =>
             \A j \in 1..NBuckets :
                 bucket_states[j].frequency = "yearly" =>
                     /\ bucket_states'[j].amount_sold = bucket_states[j].amount_sold
                     /\ bucket_states'[j].tax_paid = bucket_states[j].tax_paid
                     /\ bucket_states'[j].amount_bought = bucket_states[j].amount_bought
                            => bucket_states'[j] = bucket_states[j]
                     /\ j = i => bucket_states' = bucket_states
       /\ (pc = "phase2" /\ k <= NBuckets /\ RLt(Zero, remaining_expense)) =>
             LET idx == SpendingOrder(bucket_states)[k]
                 b == bucket_states[idx]
                 fx == get_fx_rate(b.currency, config.expenses_currency, CurrentFx(m))
             IN  (b.frequency = "yearly" /\ RLt(Zero, fx)
                      /\ RLt(Zero, RSub(RMul(b.amount, fx),
                                        RMul(b.cash_floor_months, expenses[m + 1])))) =>
                     RLt(b.amount_sold, bucket_states'[idx].amount_sold)]_vars

\* C24 witness: a yearly bucket has just been skimmed in month 12; in month
\* 1 it was at the same price and Step 1 sold nothing; in a month that is
\* not the first of a year the cascade sold from it.
C24_Witness ==
    /\ pc = "phase1" /\ i = 2 /\ m = 12
    /\ bucket_states[1].frequency = "yearly"
    /\ RLt(Zero, bucket_states[1].amount_sold)
    /\ rows[2].buckets[1].price = bucket_states[1].price
    /\ rows[2].buckets[1].sold = Zero
    /\ \E t \in 1..Len(rows) :
          /\ (t - 1) % MonthsPerYear # 0
          /\ RLt(Zero, rows[t].buckets[1].net_spent)

\* No configured target growth is below -100 percent.
TargetPricesNotNegative ==
    \A j \in 1..NBuckets : RLe(Rat(-100), config.buckets[j].target_growth_pct)

\* The number is neither an infinity nor a NaN.
Finite(x) == x[2] # 0

\* C25: execute_rebalance meets a zero or negative FX rate, a zero price, a
\* zero expense or a zero target growth by skipping the action or by taking
\* the term as zero.  A Step-1 visit of a bucket whose price or target
\* growth is zero changes nothing; one of a bucket whose FX rate is not
\* positive changes nothing or converts nothing with that rate (no fee or
\* tax booked, no other holding changed); a standby bucket whose FX rate is
\* not positive is credited nothing; a cascade visit of a bucket whose FX
\* rate is not positive, and any month without expense, sells nothing; no
\* division by zero is made.
C25_GuardedArithmetic ==
    [][TargetPricesNotNegative =>
       /\ (pc = "phase1" /\ i <= NBuckets) =>
             LET b == bucket_states[i]
                 fx == get_fx_rate(b.currency, config.expenses_currency, CurrentFx(m))
             IN  /\ (b.price = Zero \/ b.target_growth_pct = Zero) =>
                        bucket_states' = bucket_states
                 /\ RLe(fx, Zero) =>
                        /\ bucket_states'[i].fees_paid = b.fees_paid
                        /\ bucket_states'[i].tax_paid = b.tax_paid
                        /\ \A j \in 1..NBuckets \ {i} :
                              bucket_states'[j] = bucket_states[j]
                 /\ \A j \in 1..NBuckets \ {i} :
                        RLe(get_fx_rate(bucket_states[j].currency,
                                        config.expenses_currency, CurrentFx(m)), Zero)
                            => bucket_states'[j].amount = bucket_states[j].amount
       /\ (pc = "phase2" /\ k <= NBuckets) =>
             LET b == bucket_states[SpendingOrder(bucket_states)[k]]
                 fx == get_fx_rate(b.currency, config.expenses_currency, CurrentFx(m))
             IN  (RLe(fx, Zero) \/ expenses[m + 1] = Zero) =>
                     (bucket_states' = bucket_states
                         /\ remaining_expense' = remaining_expense)
       /\ \A j \in 1..Len(bucket_states') :
             /\ Finite(bucket_states'[j].amount)
             /\ Finite(bucket_states'[j].fees_paid)
             /\ Finite(bucket_states'[j].tax_paid)
             /\ Finite(bucket_states'[j].net_spent)
       /\ Finite(total_covered')
       /\ exception' = None]_vars

\* Total portfolio value in expenses currency at the FX rates of month
\* index mi.
PortfolioValue(bs, mi) ==
    RSum([j \in 1..Len(bs) |->
        RMul(bs[j].amount, get_fx_rate(bs[j].currency, config.expenses_currency,
                                       CurrentFx(mi)))])

\* C28: with fees >= 0, tax within [0, 100] and positive FX rates no step of
\* execute_rebalance, a Step-1 visit with its standby purchase or a cascade
\* visit, increases the total portfolio value.
C28_ValueNeverIncreases ==
    [][(pc \in {"phase1", "phase2"} /\ AllFxPositive /\ TargetPricesNotNegative) =>
          RLe(PortfolioValue(bucket_states', m), PortfolioValue(bucket_states, m))]_vars

\* Bucket j was neither sold from nor bought into in the first t rows.
Untouched(table, j, t) ==
    \A u \in 1..t : table[u].buckets[j].sold = Zero /\ table[u].buckets[j].bought = Zero

\* C29: the monthly price update changes no holding (of a bucket state it
\* changes the price, and the counters are zeroed on entry of the
\* rebalancer); a bucket never sold from and never bought into up to a row
\* holds its configured initial_amount in that row.
C29_HoldingChangesOnlyByTrades ==
    [][/\ pc = "month" =>
             \A j \in 1..NBuckets :
                 bucket_states'[j] =
                     [bucket_states[j] EXCEPT
                         !.price = bucket_price_series[config.buckets[j].name][m + 1],
                         !.amount_sold = Zero, !.amount_bought = Zero,
                         !.fees_paid = Zero, !.tax_paid = Zero, !.net_spent = Zero]
       /\ \A t \in 1..Len(rows') : \A j \in 1..NBuckets :
             Untouched(rows', j, t) =>
                 rows'[t].buckets[j].amount = config.buckets[j].initial_amount]_vars

\* C29 witness: a trial has ended in which a bucket's price moved and the
\* bucket, never sold from nor bought into, still holds its initial amount.
C29_Witness ==
    /\ pc = "done"
    /\ \E j \in 1..NBuckets :
          /\ rows[1].buckets[j].price # rows[3].buckets[j].price
          /\ Untouched(rows, j, Len(rows))
          /\ RLt(Zero, bucket_states[j].amount)
          /\ bucket_states[j].amount = config.buckets[j].initial_amount
          /\ LastRow.buckets[j].amount = config.buckets[j].initial_amount

\* C26: no step of a batch modifies the configuration, and every trial
\* starts from new bucket states, holding the configured initial_amount with
\* the configured initial_price as anchor and price, counters at 0, and from
\* an empty table, whatever the trials before sold or bought.
C26_TrialsShareNoState ==
    [][/\ config' = config
       /\ (pc = "start" /\ pc' # "start") =>
             /\ Len(bucket_states') = NBuckets
             /\ rows' = <<>>
             /\ m' = 0
             /\ \A j \in 1..NBuckets :
                   /\ bucket_states'[j].amount = config.buckets[j].initial_amount
                   /\ bucket_states'[j].initial_price = config.buckets[j].initial_price
                   /\ bucket_states'[j].price = config.buckets[j].initial_price
                   /\ bucket_states'[j].amount_sold = Zero
                   /\ bucket_states'[j].net_spent = Zero]_vars

\* C26 witness: the second trial of a batch has just started with the
\* configured holding, after a first trial that sold from the bucket.
C26_Witness ==
    /\ mc_pc = "trial" /\ sim = 1
    /\ pc = "month" /\ m = 0 /\ rows = <<>>
    /\ Len(all_frames) = 1
    /\ RLt(all_frames[1][n_months].buckets[1].amount, config.buckets[1].initial_amount)
    /\ bucket_states[1].amount = config.buckets[1].initial_amount

\* C30: while the SimulationThread runs run_simulation, no step changes the
\* SimConfig it reads: no handler of the GUI thread writes into it.
C30_ConfigStableWhileRunning ==
    [][_sim_thread = "running" => config' = config]_vars

====
